---- MODULE Spec2Model ----
(***************************************************************************)
(* The authentication service: the credential store with its lockout       *)
(* counters, login / refresh / validate, the token codec, and the tenant   *)
(* provisioning operations (organizations, departments, memberships,       *)
(* bootstrap administrator).                                               *)
(*                                                                         *)
(* Every service method is one atomic action: requests are handled one at  *)
(* a time.  The store is the set of gorm tables; rows of a model that has  *)
(* a DeletedAt column are soft-deleted (kept, flagged) and every gorm      *)
(* query or update on such a model skips the flagged rows.                 *)
(***************************************************************************)
EXTENDS Integers, Sequences, FiniteSets, TLC

(***************************************************************************)
(* Bounds of the model.  The configuration values (MAX_LOGIN_ATTEMPTS,     *)
(* LOCKOUT_DURATION, TOKEN_EXPIRATION, REFRESH_EXPIRATION) are settable    *)
(* per deployment; the model runs them scaled down, in clock ticks.        *)
(***************************************************************************)
MaxUsers == 2
MaxOrgs == 2
MaxDepts == 2
MaxTime == 3
MaxSalt == 3
MaxCalls == 2
MaxStoredAttempts == 4
MaxLoginAttempts == 3
LockoutDuration == 2
TokenExpiration == 1
RefreshExpiration == 2

\* config.PasswordMinLength (PASSWORD_MIN_LENGTH, default 8)
PasswordMinLength == 8

Null == -1          \* a nil *time.Time
NoId == 0           \* a nil pointer to a row / a nil *uint64

\* models.OrganizationRoleSystemAdmin
OrganizationRoleSystemAdmin == "SYSTEM_ADMIN"

ErrInvalidCredentials == "ErrInvalidCredentials"
ErrAccountLocked == "ErrAccountLocked"
ErrAccountInactive == "ErrAccountInactive"
ErrInvalidToken == "ErrInvalidToken"
ErrUserNotFound == "ErrUserNotFound"
ErrOrganizationNotFound == "ErrOrganizationNotFound"
ErrDepartmentNotFound == "ErrDepartmentNotFound"
\* errors built with fmt.Errorf or handed up from a library; no sentinel value
ErrRoleNotAllowed == "user does not have the required role in the organization"
ErrNotAMember == "organization not found or user not a member"
ErrParseUint == "strconv.ParseUint: invalid syntax"
ErrStore == "store error"
ErrInput == "input rejected"
NoErr == ""

\* config.Config.JWTSecret, and any other key
JWTSecret == "jwt-secret"
OtherSecret == "other-secret"

VARIABLES
    users,       \* table users: sequence of rows, row i has ID i
    orgs,        \* table organizations: sequence of rows, row i has ID i
    depts,       \* table departments
    userOrgs,    \* table user_organizations: set of rows keyed (user_id, organization_id)
    userDepts,   \* table user_departments: set of rows keyed (user_id, department_id)
    now,         \* the clock, time.Now()
    nextSalt,    \* bcrypt draws a fresh salt for every hash it generates
    req,         \* the last request: the operation and its arguments
    resp,        \* what the service returned for it
    held,        \* the token pair a client keeps, and the account it was issued for
    streak,      \* history: per account, the number of consecutive failed
                 \* password checks since the account was Active with
                 \* login_attempts = 0 and no locked_until (-1: not in such a run)
    calls        \* the service calls in flight, one per request goroutine: the
                 \* operation, its arguments, what it has read, and the
                 \* repository call it makes next

vars == <<users, orgs, depts, userOrgs, userDepts, now, nextSalt, req, resp, held, streak,
          calls>>

Min(S) == CHOOSE x \in S : \A y \in S : x <= y

(***************************************************************************)
(* Strings.  strings.TrimSpace on the inputs the model draws.              *)
(***************************************************************************)
TrimSpace(s) ==
    CASE s = " " -> ""
      [] s = " Second description " -> "Second description"
      [] OTHER -> s

\* len(password) of the passwords the model draws
PasswordLen(p) ==
    CASE p = "ChangeMe123!" -> 12
      [] p = "Rotated456789" -> 13
      [] p = "short" -> 5
      [] OTHER -> 8

(***************************************************************************)
(* bcrypt.  A hash binds the password and a fresh salt; comparing succeeds *)
(* exactly for the password that was hashed.                               *)
(***************************************************************************)
GenerateFromPassword(password, salt) == [pw |-> password, salt |-> salt]

CompareHashAndPassword(hash, password) == hash.pw = password

(***************************************************************************)
(* UserRepository                                                          *)
(***************************************************************************)
UserIds(us) == 1..Len(us)

LiveUserIds(us) == {i \in UserIds(us) : ~us[i].deleted}

GetByID(us, id) == IF id \in LiveUserIds(us) THEN id ELSE NoId

GetByEmail(us, email) ==
    LET m == {i \in LiveUserIds(us) : us[i].email = email}
    IN  IF m = {} THEN NoId ELSE Min(m)

\* variant: the lookup falls back to the first live row when nothing matches
GetByEmailOrUsername_FirstRow(us, identifier) ==
    LET m == {i \in LiveUserIds(us) :
                 us[i].email = identifier \/ us[i].username = identifier}
    IN  IF m # {} THEN Min(m)
        ELSE IF LiveUserIds(us) # {} THEN Min(LiveUserIds(us)) ELSE NoId

GetByEmailOrUsername(us, identifier) ==
    LET m == {i \in LiveUserIds(us) :
                 us[i].email = identifier \/ us[i].username = identifier}
    IN  IF m = {} THEN NoId ELSE Min(m)

ExistsByEmail(us, email) == \E i \in LiveUserIds(us) : us[i].email = email

ExistsByUsername(us, username) == \E i \in LiveUserIds(us) : us[i].username = username

\* the unique indexes on users.email and users.username cover every row,
\* soft-deleted ones included; row `self` (NoId for an insert) is the row written
\* variant: no unique index on users.username
UniqueUserKeys_EmailOnly(us, self, email, username) ==
    \A i \in UserIds(us) \ {self} : us[i].email # email

UniqueUserKeys(us, self, email, username) ==
    \A i \in UserIds(us) \ {self} : us[i].email # email /\ us[i].username # username

IncrementLoginAttempts(us, userID) ==
    IF userID \in LiveUserIds(us)
    THEN [us EXCEPT ![userID].login_attempts = @ + 1]
    ELSE us

\* variant: locking also resets the counter
LockAccount_ResetsCounter(us, userID, until) ==
    IF userID \in LiveUserIds(us)
    THEN [us EXCEPT ![userID].locked_until = until, ![userID].login_attempts = 0]
    ELSE us

LockAccount(us, userID, until) ==
    IF userID \in LiveUserIds(us)
    THEN [us EXCEPT ![userID].locked_until = until]
    ELSE us

\* variant: the counter left out of the update
UpdateLastLogin_KeepsAttempts(us, userID, t) ==
    IF userID \in LiveUserIds(us)
    THEN [us EXCEPT ![userID].last_login = t]
    ELSE us

UpdateLastLogin(us, userID, t) ==
    IF userID \in LiveUserIds(us)
    THEN [us EXCEPT ![userID].last_login = t, ![userID].login_attempts = 0]
    ELSE us

\* UserRepository.Delete: the soft delete
DeleteRow(us, userID) ==
    IF userID \in LiveUserIds(us)
    THEN [us EXCEPT ![userID].deleted = TRUE]
    ELSE us

\* UserRepository.Update (db.Save) of a loaded row with IsActive = false
DeactivateRow(us, userID) ==
    IF userID \in LiveUserIds(us)
    THEN [us EXCEPT ![userID].is_active = FALSE]
    ELSE us

UnlockAccountRow(us, userID) ==
    IF userID \in LiveUserIds(us)
    THEN [us EXCEPT ![userID].locked_until = Null, ![userID].login_attempts = 0]
    ELSE us

SetUserPrimaryOrganization(us, userID, orgID) ==
    IF userID \in LiveUserIds(us)
    THEN [us EXCEPT ![userID].primary_organization_id = orgID]
    ELSE us

SetUserPrimaryDepartment(us, userID, deptID) ==
    IF userID \in LiveUserIds(us)
    THEN [us EXCEPT ![userID].primary_department_id = deptID]
    ELSE us

NewUser(email, username, hash, verified, superAdmin, primaryOrg) ==
    [email |-> email, username |-> username, password |-> hash,
     is_active |-> TRUE, is_verified |-> verified, is_super_admin |-> superAdmin,
     primary_organization_id |-> primaryOrg, primary_department_id |-> NoId,
     login_attempts |-> 0, locked_until |-> Null, last_login |-> Null,
     deleted |-> FALSE]

(***************************************************************************)
(* OrganizationRepository: organizations and departments                   *)
(***************************************************************************)
OrgIds(os) == 1..Len(os)

\* variant: the lookup reports every id as found
GetOrganizationByID_Unchecked(os, id) == id

GetOrganizationByID(os, id) == IF id \in OrgIds(os) THEN id ELSE NoId

GetDepartmentByID(ds, id) == IF id \in 1..Len(ds) THEN id ELSE NoId

\* the unique index on organizations.domain covers every row and every
\* value, the empty string included
UniqueDomain(os, domain) == \A i \in OrgIds(os) : os[i].domain # domain

NewOrganization(name, description, domain, parent, active) ==
    [name |-> name, description |-> description, domain |-> domain,
     is_active |-> active, parent_id |-> parent]

\* db.Create(org): [err, id, orgs]
InsertOrganization(os, org) ==
    IF UniqueDomain(os, org.domain)
    THEN [err |-> NoErr, id |-> Len(os) + 1, orgs |-> Append(os, org)]
    ELSE [err |-> ErrStore, id |-> NoId, orgs |-> os]

\* variant: the description of an existing organization is never rewritten
DescriptionChanges_Never(org, description) == FALSE

DescriptionChanges(org, description) ==
    TrimSpace(description) # "" /\ org.description # description

\* variant: the domain of a matched organization is always rewritten
DomainChanges_Always(org, domain) == TRUE

DomainChanges(org, domain) ==
    TrimSpace(domain) # "" /\ org.domain # TrimSpace(domain)

updateOrganizationDefaults(os, id, description, domain, isActive) ==
    LET org == os[id]
        d1 == IF DescriptionChanges(org, description)
              THEN TrimSpace(description) ELSE org.description
        d2 == IF DomainChanges(org, domain)
              THEN TrimSpace(domain) ELSE org.domain
    IN  [err |-> NoErr, id |-> id,
         orgs |-> [os EXCEPT ![id].is_active = isActive,
                             ![id].description = d1,
                             ![id].domain = d2]]

\* variant: the organization is inserted without looking it up first
EnsureOrganization_AlwaysCreate(os, name, description, domain) ==
    InsertOrganization(os,
        NewOrganization(TrimSpace(name), TrimSpace(description), TrimSpace(domain),
                        NoId, TRUE))

EnsureOrganization(os, name, description, domain) ==
    IF TrimSpace(name) = ""
    THEN [err |-> ErrInput, id |-> NoId, orgs |-> os]
    ELSE LET cleanDomain == TrimSpace(domain)
             cleanName == TrimSpace(name)
             byDomain == {i \in OrgIds(os) : os[i].domain = cleanDomain}
             byName == {i \in OrgIds(os) : os[i].name = cleanName}
         IN  IF cleanDomain # "" /\ byDomain # {}
             THEN updateOrganizationDefaults(os, Min(byDomain), description, cleanDomain, TRUE)
             ELSE IF byName # {}
             THEN updateOrganizationDefaults(os, Min(byName), description, cleanDomain, TRUE)
             ELSE InsertOrganization(os,
                     NewOrganization(cleanName, TrimSpace(description), cleanDomain, NoId, TRUE))

(***************************************************************************)
(* OrganizationRepository: membership rows.  `key` is the unit column      *)
(* (organization_id / department_id); both tables behave alike.            *)
(***************************************************************************)
Membership(userID, unitID, role, isPrimary) ==
    [user_id |-> userID, unit_id |-> unitID, role |-> role,
     is_primary |-> isPrimary, deleted |-> FALSE]

\* the rows a query sees: a gorm query on a soft-delete model adds
\* "deleted_at IS NULL"
Live(rows) == {m \in rows : ~m.deleted}

ListUserMemberships(rows, userID) == {m \in Live(rows) : m.user_id = userID}

\* variant: the query also sees soft-deleted rows
GetUserMembership_Unscoped(rows, userID, unitID) ==
    {m \in rows : m.user_id = userID /\ m.unit_id = unitID}

\* GetUserOrganization / GetUserDepartment: the row, or none (nil)
GetUserMembership(rows, userID, unitID) ==
    {m \in Live(rows) : m.user_id = userID /\ m.unit_id = unitID}

\* INSERT ... ON CONFLICT (user_id, unit_id) DO UPDATE SET role, is_primary,
\* updated_at: the conflict is on the primary key, which a soft-deleted row
\* still holds; deleted_at is not among the assigned columns
UpsertUserMembership(rows, userID, unitID, role, isPrimary) ==
    IF \E m \in rows : m.user_id = userID /\ m.unit_id = unitID
    THEN {IF m.user_id = userID /\ m.unit_id = unitID
          THEN [m EXCEPT !.role = role, !.is_primary = isPrimary]
          ELSE m : m \in rows}
    ELSE rows \cup {Membership(userID, unitID, role, isPrimary)}

\* ClearPrimaryOrganization / ClearPrimaryDepartment
ClearPrimary(rows, userID) ==
    {IF m.user_id = userID /\ ~m.deleted
     THEN [m EXCEPT !.is_primary = FALSE]
     ELSE m : m \in rows}

\* RemoveUserOrganization / RemoveUserDepartment: db.Delete on a soft-delete model
RemoveUserMembership(rows, userID, unitID) ==
    {IF m.user_id = userID /\ m.unit_id = unitID /\ ~m.deleted
     THEN [m EXCEPT !.deleted = TRUE]
     ELSE m : m \in rows}

(***************************************************************************)
(* Token codec.  A claim value travels as JSON: encoding/json writes a Go  *)
(* uint64 as a JSON number and a Go string as a JSON string, and decoding  *)
(* into jwt.MapClaims yields float64 for a number and string for a string. *)
(* A token is header.payload.signature; the signature is the MAC of the    *)
(* header's algorithm over the payload under the signing key.              *)
(***************************************************************************)
JSONNumber(n) == [kind |-> "number", n |-> n, s |-> ""]
JSONString(str) == [kind |-> "string", n |-> 0, s |-> str]
JSONAbsent == [kind |-> "absent", n |-> 0, s |-> ""]
JSONTrue == [kind |-> "bool", n |-> 1, s |-> ""]

\* json.Marshal of a uint64 claim value (user.ID)
MarshalUint64(id) == JSONNumber(id)

\* the type assertion v.(string) on a decoded claim: [ok, s]
AssertString(v) == [ok |-> v.kind = "string", s |-> v.s]

\* utils.ParseUint64 (strconv.ParseUint, base 10) on the strings the model draws
DigitStrings == <<"1", "2", "3">>

ParseUint64(str) ==
    IF \E i \in 1..Len(DigitStrings) : DigitStrings[i] = str
    THEN [err |-> NoErr, n |-> CHOOSE i \in 1..Len(DigitStrings) : DigitStrings[i] = str]
    ELSE [err |-> ErrParseUint, n |-> 0]

HMACAlgs == {"HS256", "HS384", "HS512"}

MAC(alg, key, payload) == [alg |-> alg, key |-> key, msg |-> payload]

SignedString(alg, payload, key) ==
    [alg |-> alg, payload |-> payload, sig |-> MAC(alg, key, payload)]

Payload(type, userID, exp, nbf) ==
    [type |-> type, user_id |-> userID, exp |-> exp, nbf |-> nbf]

\* the empty string: no token at all
NoToken == SignedString("", Payload(JSONAbsent, JSONAbsent, 0, 0), "")

\* a claim set without any claim, and the value of a claim in a claim set
NoClaims == [name \in {} |-> JSONAbsent]
Claim(payload, name) == IF name \in DOMAIN payload THEN payload[name] ELSE JSONAbsent

\* the identity claims of an access token: email and username, org_id when
\* the account has a primary organization, is_super_admin when it is set
IdentityClaims(userID) ==
    [email |-> JSONString(users[userID].email),
     username |-> JSONString(users[userID].username)]
      @@ (IF users[userID].primary_organization_id # NoId
          THEN [org_id |-> MarshalUint64(users[userID].primary_organization_id)]
          ELSE NoClaims)
      @@ (IF users[userID].is_super_admin THEN [is_super_admin |-> JSONTrue]
          ELSE NoClaims)

\* ListUserOrganizations / ListUserDepartments as a list: ORDER BY is_primary
\* DESC, updated_at DESC.  The model keeps no updated_at: rows with the same
\* flag are listed by unit id.
ListUserMembershipsOrdered(rows, userID) ==
    LET S == ListUserMemberships(rows, userID)
        before(a, b) == \/ a.is_primary /\ ~b.is_primary
                        \/ a.is_primary = b.is_primary /\ a.unit_id < b.unit_id
    IN  CHOOSE q \in [1..Cardinality(S) -> S] :
            \A i, j \in 1..Cardinality(S) : i < j => before(q[i], q[j])

\* the "organizations" / "departments" claims of an access token: one entry
\* per membership handed to generateAccessToken, in the order of the list,
\* the role left out when empty
MembershipClaims(rows, userID) ==
    LET q == ListUserMembershipsOrdered(rows, userID) IN
    [k \in DOMAIN q |->
        [id |-> q[k].unit_id, is_primary |-> q[k].is_primary,
         role |-> IF q[k].role # "" THEN JSONString(q[k].role) ELSE JSONAbsent]]

\* the roles appended while the organization memberships are walked
MembershipRoles(rows, userID) ==
    LET q == ListUserMembershipsOrdered(rows, userID) IN
    SelectSeq([k \in DOMAIN q |-> q[k].role], LAMBDA role : role # "")

RECURSIVE uniqueStrings(_)
uniqueStrings(values) ==
    IF values = <<>> THEN <<>>
    ELSE LET result == uniqueStrings(SubSeq(values, 1, Len(values) - 1))
             trimmed == TrimSpace(values[Len(values)])
         IN  IF trimmed = "" \/ \E k \in DOMAIN result : result[k] = trimmed
             THEN result
             ELSE Append(result, trimmed)

\* the memberships are those collectMemberships has just read for the user
generateAccessToken(userID, t) ==
    LET orgClaims == MembershipClaims(userOrgs, userID)
        roles == MembershipRoles(userOrgs, userID)
        deptClaims == MembershipClaims(userDepts, userID)
    IN
    SignedString("HS256",
        Payload(JSONString("access"), MarshalUint64(userID), t + TokenExpiration, t)
            @@ IdentityClaims(userID)
            @@ (IF Len(orgClaims) > 0 THEN [organizations |-> orgClaims] ELSE NoClaims)
            @@ (IF Len(orgClaims) > 0 /\ Len(roles) > 0
                THEN [roles |-> uniqueStrings(roles)] ELSE NoClaims)
            @@ (IF Len(deptClaims) > 0 THEN [departments |-> deptClaims] ELSE NoClaims),
        JWTSecret)

generateRefreshToken(userID, t) ==
    SignedString("HS256",
        Payload(JSONString("refresh"), MarshalUint64(userID), t + RefreshExpiration, t),
        JWTSecret)

\* the key function handed to jwt.Parse: any *jwt.SigningMethodHMAC passes
KeyFuncAccepts(alg) == alg \in HMACAlgs

\* the registered-claims validation of jwt.Parse: exp and nbf against the clock
ClaimsTimeValid(payload, t) == t < payload.exp /\ t >= payload.nbf

\* jwt.Parse with the service's key function: err == nil && token.Valid
ParseValid(token, t) ==
    /\ KeyFuncAccepts(token.alg)
    /\ token.sig = MAC(token.alg, JWTSecret, token.payload)
    /\ ClaimsTimeValid(token.payload, t)

\* variant: the type claim only has to be a string
TypeIs_AnyString(payload, type) == AssertString(payload.type).ok

\* tokenType, ok := claims["type"].(string); ok && tokenType == type
TypeIs(payload, type) ==
    LET ty == AssertString(payload.type) IN ty.ok /\ ty.s = type

(***************************************************************************)
(* Responses.  value/has_value: a returned *uint64 (nil, or a pointer to a *)
(* number); the tokens and the logged units are those of a LoginResponse.  *)
(***************************************************************************)
Resp(op, err, hasValue, value, access, refresh, org, dept) ==
    [op |-> op, err |-> err, has_value |-> hasValue, value |-> value,
     access_token |-> access, refresh_token |-> refresh,
     logged_organization |-> org, logged_department |-> dept]

\* User.ToUserInfo and composeUserInfo: the user projection of a
\* LoginResponse, with the memberships handed to it
composeUserInfo(us, user, orgMemberships, deptMemberships) ==
    [id |-> user, email |-> us[user].email, username |-> us[user].username,
     primary_organization_id |-> us[user].primary_organization_id,
     primary_department_id |-> us[user].primary_department_id,
     is_super_admin |-> us[user].is_super_admin,
     organizations |-> {[organization_id |-> m.unit_id, role |-> m.role,
                         is_primary |-> m.is_primary] : m \in orgMemberships},
     departments |-> {[department_id |-> m.unit_id, role |-> m.role,
                       is_primary |-> m.is_primary] : m \in deptMemberships}]

\* the fields a LoginResponse has besides the tokens and the logged units
LoginResponseFields(us, user) ==
    [token_type |-> "Bearer",
     user |-> composeUserInfo(us, user, ListUserMemberships(userOrgs, user),
                              ListUserMemberships(userDepts, user))]

Failure(op, err) == Resp(op, err, FALSE, NoId, NoToken, NoToken, NoId, NoId)

NoResp == Failure("", NoErr)

\* variant: the account is loaded and must be active, as RefreshToken does
ValidateTokenResult_ChecksAccount(token, t) ==
    IF ~ParseValid(token, t) \/ ~TypeIs(token.payload, "access")
       \/ ~AssertString(token.payload.user_id).ok
    THEN Failure("ValidateToken", ErrInvalidToken)
    ELSE LET parsed == ParseUint64(token.payload.user_id.s)
             user == GetByID(users, parsed.n)
         IN  IF parsed.err # NoErr \/ user = NoId \/ ~users[user].is_active
             THEN Failure("ValidateToken", ErrInvalidToken)
             ELSE Resp("ValidateToken", NoErr, TRUE, user, NoToken, NoToken, NoId, NoId)

\* ValidateToken(tokenString) (*uint64, error)
ValidateTokenResult(token, t) ==
    IF ~ParseValid(token, t) THEN Failure("ValidateToken", ErrInvalidToken)
    ELSE IF ~TypeIs(token.payload, "access") THEN Failure("ValidateToken", ErrInvalidToken)
    ELSE LET userIDStr == AssertString(token.payload.user_id) IN
         IF ~userIDStr.ok THEN Failure("ValidateToken", ErrInvalidToken)
         ELSE LET parsed == ParseUint64(userIDStr.s) IN
              Resp("ValidateToken", parsed.err, TRUE, parsed.n, NoToken, NoToken, NoId, NoId)

\* RefreshToken(refreshToken) (*models.LoginResponse, error)
RefreshTokenResult(us, token, t) ==
    IF ~ParseValid(token, t) THEN Failure("RefreshToken", ErrInvalidToken)
    ELSE IF ~TypeIs(token.payload, "refresh") THEN Failure("RefreshToken", ErrInvalidToken)
    ELSE LET userIDStr == AssertString(token.payload.user_id) IN
         IF ~userIDStr.ok THEN Failure("RefreshToken", ErrInvalidToken)
         ELSE LET parsed == ParseUint64(userIDStr.s) IN
              IF parsed.err # NoErr THEN Failure("RefreshToken", ErrInvalidToken)
              ELSE LET user == GetByID(us, parsed.n) IN
                   IF user = NoId \/ ~us[user].is_active
                   THEN Failure("RefreshToken", ErrInvalidToken)
                   ELSE Resp("RefreshToken", NoErr, TRUE, user,
                             generateAccessToken(user, t), generateRefreshToken(user, t),
                             NoId, NoId) @@ LoginResponseFields(us, user)

(***************************************************************************)
(* AuthenticationService.Login                                             *)
(***************************************************************************)
\* variant: the lock check never fires
IsLocked_Never(user, t) == FALSE

\* variant: the comparison reversed (Before for After)
IsLocked_Before(user, t) == user.locked_until # Null /\ user.locked_until < t

\* user.LockedUntil != nil && user.LockedUntil.After(time.Now())
IsLocked(user, t) == user.locked_until # Null /\ user.locked_until > t

\* variant: the threshold reached one attempt late (> for >=)
ShouldLock_Late(loginAttempts) == loginAttempts + 1 > MaxLoginAttempts

\* variant: the lock is set at the threshold only (= for >=)
ShouldLock_Exact(loginAttempts) == loginAttempts + 1 = MaxLoginAttempts

\* user.LoginAttempts+1 >= s.config.MaxLoginAttempts
ShouldLock(loginAttempts) == loginAttempts + 1 >= MaxLoginAttempts

\* variant: every role passes
RoleAllowed_Any(role) == TRUE

\* variant: only memberships without a role pass
RoleAllowed_NoRoleOnly(role) == role = ""

\* the role validation of the membership in the requested organization
RoleAllowed(role) == ~(role # "" /\ role # OrganizationRoleSystemAdmin)

\* the branch taken when the password does not verify
FailedPasswordCheck(us, user, t) ==
    LET counted == IncrementLoginAttempts(us, user) IN
    IF ShouldLock(us[user].login_attempts)
    THEN LockAccount(counted, user, t + LockoutDuration)
    ELSE counted

\* variant: the successful login also clears locked_until
CompleteLogin_Unlocks(us, user, t) ==
    [UpdateLastLogin(us, user, t) EXCEPT ![user].locked_until = Null]

\* the writes at the end of a successful Login
CompleteLogin(us, user, t) == UpdateLastLogin(us, user, t)

\* variant: a login refused after the password check counts as a failure
RefusedLogin_Counted(us, user) == IncrementLoginAttempts(us, user)

\* the users table after a Login that returns between the password check and
\* the token generation: no repository write is made on these paths
RefusedLogin(us, user) == us

\* Login's outcome: the response, the users table after it, and the check
\* at which it returned
LoginResult(identifier, password, organizationID, departmentID) ==
    LET user == GetByEmailOrUsername(users, identifier)
        out(stage, r, us) == [stage |-> stage, resp |-> r, users |-> us]
    IN
    IF user = NoId
    THEN out("lookup", Failure("Login", ErrInvalidCredentials), users)
    ELSE IF IsLocked(users[user], now)
    THEN out("locked", Failure("Login", ErrAccountLocked), users)
    ELSE IF ~users[user].is_active
    THEN out("inactive", Failure("Login", ErrAccountInactive), users)
    ELSE IF ~CompareHashAndPassword(users[user].password, password)
    THEN out("password", Failure("Login", ErrInvalidCredentials),
             FailedPasswordCheck(users, user, now))
    ELSE LET orgMember == GetUserMembership(userOrgs, user, organizationID)
             deptMember == GetUserMembership(userDepts, user, departmentID)
         IN
         IF \E m \in orgMember : ~RoleAllowed(m.role)
         THEN out("role", Failure("Login", ErrRoleNotAllowed),
                  RefusedLogin(users, user))
         ELSE LET loggedOrganization ==
                      IF orgMember = {} THEN NoId
                      ELSE GetOrganizationByID(orgs, organizationID)
                  loggedDepartment ==
                      IF deptMember = {} THEN NoId
                      ELSE GetDepartmentByID(depts, departmentID)
              IN
              IF loggedOrganization = NoId
              THEN out("membership", Failure("Login", ErrNotAMember),
                       RefusedLogin(users, user))
              ELSE out("ok",
                       Resp("Login", NoErr, TRUE, user,
                            generateAccessToken(user, now),
                            generateRefreshToken(user, now),
                            loggedOrganization, loggedDepartment)
                           @@ LoginResponseFields(users, user),
                       CompleteLogin(users, user, now))

\* the history variable after a Login that resolved account `user`
StreakAfterLogin(r, user) ==
    IF user = NoId THEN streak
    ELSE IF r.stage = "password"
    THEN [streak EXCEPT ![user] = IF @ >= 0 THEN @ + 1 ELSE @]
    ELSE IF r.stage = "ok"
    THEN [streak EXCEPT ![user] = IF r.users[user].locked_until = Null THEN 0 ELSE -1]
    ELSE streak

Login(identifier, password, organizationID, departmentID) ==
    LET r == LoginResult(identifier, password, organizationID, departmentID)
        user == GetByEmailOrUsername(users, identifier)
    IN
    /\ \A i \in UserIds(r.users) : r.users[i].login_attempts <= MaxStoredAttempts
    /\ req' = [op |-> "Login", identifier |-> identifier, password |-> password,
               organization_id |-> organizationID, department_id |-> departmentID]
    /\ resp' = r.resp
    /\ users' = r.users
    /\ streak' = StreakAfterLogin(r, user)
    /\ UNCHANGED <<orgs, depts, userOrgs, userDepts, now, nextSalt, held, calls>>

\* the repository reads Login makes after the password check
LoginReads == {"ListUserOrganizations", "ListUserDepartments",
               "GetOrganizationByID", "GetDepartmentByID"}

\* Login when the repository read `failing` returns an error: the call is
\* reached only with the password verified, the two lists are loaded first,
\* the organization is loaded for a membership whose role passed, the
\* department after the organization loop, and Login returns the error
LoginInterrupted(identifier, password, organizationID, departmentID, failing) ==
    LET user == GetByEmailOrUsername(users, identifier)
        orgMember == GetUserMembership(userOrgs, user, organizationID)
        deptMember == GetUserMembership(userDepts, user, departmentID)
    IN
    /\ user # NoId
    /\ ~IsLocked(users[user], now)
    /\ users[user].is_active
    /\ CompareHashAndPassword(users[user].password, password)
    /\ failing = "GetOrganizationByID" =>
           orgMember # {} /\ \A m \in orgMember : RoleAllowed(m.role)
    /\ failing = "GetDepartmentByID" =>
           deptMember # {} /\ \A m \in orgMember : RoleAllowed(m.role)
    /\ req' = [op |-> "Login", identifier |-> identifier, password |-> password,
               organization_id |-> organizationID, department_id |-> departmentID,
               failing |-> failing]
    /\ resp' = Failure("Login", ErrStore)
    /\ users' = RefusedLogin(users, user)
    /\ UNCHANGED <<orgs, depts, userOrgs, userDepts, now, nextSalt, held, streak, calls>>

\* the handler's answers: the error constructors of the HTTP layer
HTTPOK == "200 OK"
HTTPValidationError == "ValidationError"
HTTPUnauthorized == "Unauthorized"
HTTPForbidden == "Forbidden"
HTTPInternal == "Internal"

\* AuthenticationHandler.Login's request validation on the decoded
\* LoginRequest; a field absent from the JSON body decodes to "" or 0
LoginRequestValid(username, password, organizationID, roleID) ==
    /\ ~(username = "" \/ password = "")
    /\ ~(organizationID = NoId \/ roleID = NoId)

\* AuthenticationHandler.Login's mapping of the service's error
LoginStatus(err) ==
    IF err = NoErr THEN HTTPOK
    ELSE IF err = ErrInvalidCredentials THEN HTTPUnauthorized
    ELSE IF err \in {ErrAccountLocked, ErrAccountInactive} THEN HTTPForbidden
    ELSE HTTPInternal

\* AuthenticationHandler.Login: the login endpoint
LoginHandler(username, password, organizationID, departmentID, roleID) ==
    LET valid == LoginRequestValid(username, password, organizationID, roleID)
        r == LoginResult(username, password, organizationID, departmentID)
        user == GetByEmailOrUsername(users, username)
    IN
    /\ req' = [op |-> "LoginHandler", identifier |-> username, password |-> password,
               organization_id |-> organizationID, department_id |-> departmentID,
               role_id |-> roleID, reached_service |-> valid]
    /\ IF ~valid
       THEN /\ resp' = Failure("LoginHandler", NoErr) @@ [status |-> HTTPValidationError]
            /\ UNCHANGED <<users, streak>>
       ELSE /\ \A i \in UserIds(r.users) : r.users[i].login_attempts <= MaxStoredAttempts
            /\ resp' = r.resp @@ [status |-> LoginStatus(r.resp.err)]
            /\ users' = r.users
            /\ streak' = StreakAfterLogin(r, user)
    /\ UNCHANGED <<orgs, depts, userOrgs, userDepts, now, nextSalt, held, calls>>

\* AuthenticationHandler.RefreshToken's mapping of the service's error
RefreshStatus(err) ==
    IF err = NoErr THEN HTTPOK
    ELSE IF err = ErrInvalidToken THEN HTTPUnauthorized
    ELSE HTTPInternal

\* AuthenticationHandler.RefreshToken: the refresh endpoint; an absent
\* refresh_token decodes to the empty string
RefreshTokenHandler(token) ==
    LET r == RefreshTokenResult(users, token, now) IN
    /\ req' = [op |-> "RefreshTokenHandler", token |-> token,
               reached_service |-> token # NoToken]
    /\ resp' = IF token = NoToken
               THEN Failure("RefreshTokenHandler", NoErr) @@ [status |-> HTTPValidationError]
               ELSE r @@ [status |-> RefreshStatus(r.err)]
    /\ UNCHANGED <<users, orgs, depts, userOrgs, userDepts, now, nextSalt, held, streak, calls>>

\* UserRepository.UnlockAccount: the explicit administrative unlock
UnlockAccount(userID) ==
    /\ userID \in LiveUserIds(users)
    /\ users' = UnlockAccountRow(users, userID)
    /\ streak' = [streak EXCEPT ![userID] = 0]
    /\ req' = [op |-> "UnlockAccount", user_id |-> userID]
    /\ resp' = Resp("UnlockAccount", NoErr, FALSE, NoId, NoToken, NoToken, NoId, NoId)
    /\ UNCHANGED <<orgs, depts, userOrgs, userDepts, now, nextSalt, held, calls>>

\* UserRepository.Delete
DeleteUser(userID) ==
    /\ userID \in LiveUserIds(users)
    /\ users' = DeleteRow(users, userID)
    /\ req' = [op |-> "DeleteUser", user_id |-> userID]
    /\ resp' = Resp("DeleteUser", NoErr, FALSE, NoId, NoToken, NoToken, NoId, NoId)
    /\ UNCHANGED <<orgs, depts, userOrgs, userDepts, now, nextSalt, held, streak, calls>>

\* UserRepository.Update: an account is switched to inactive
DeactivateUser(userID) ==
    /\ userID \in LiveUserIds(users)
    /\ users[userID].is_active
    /\ users' = DeactivateRow(users, userID)
    /\ req' = [op |-> "DeactivateUser", user_id |-> userID]
    /\ resp' = Resp("DeactivateUser", NoErr, FALSE, NoId, NoToken, NoToken, NoId, NoId)
    /\ UNCHANGED <<orgs, depts, userOrgs, userDepts, now, nextSalt, held, streak, calls>>

\* time passes
Tick ==
    /\ now < MaxTime
    /\ now' = now + 1
    /\ UNCHANGED <<users, orgs, depts, userOrgs, userDepts, nextSalt, req, resp, held, streak, calls>>

(***************************************************************************)
(* AuthenticationService.RefreshToken / ValidateToken                      *)
(***************************************************************************)
RefreshToken(token) ==
    LET r == RefreshTokenResult(users, token, now) IN
    /\ req' = [op |-> "RefreshToken", token |-> token]
    /\ resp' = r
    /\ UNCHANGED <<users, orgs, depts, userOrgs, userDepts, now, nextSalt, held, streak, calls>>

ValidateToken(token) ==
    /\ req' = [op |-> "ValidateToken", token |-> token]
    /\ resp' = ValidateTokenResult(token, now)
    /\ UNCHANGED <<users, orgs, depts, userOrgs, userDepts, now, nextSalt, held, streak, calls>>

\* AuthenticationService.GetUserInfoByID: the projection behind /me, nil
\* for a missing account; req.after records the assignment that returned
\* no error right before this call, if any
GetUserInfoByID(id) ==
    LET user == GetByID(users, id) IN
    /\ req' = [op |-> "GetUserInfoByID", user_id |-> id,
               after |-> IF /\ req.op \in {"AssignUserToOrganization",
                                            "AssignUserToDepartment"}
                            /\ resp.err = NoErr
                         THEN req ELSE [op |-> ""]]
    /\ resp' = IF user = NoId
               THEN Resp("GetUserInfoByID", NoErr, FALSE, NoId, NoToken, NoToken, NoId, NoId)
               ELSE Resp("GetUserInfoByID", NoErr, TRUE, user, NoToken, NoToken, NoId, NoId)
                        @@ [user |-> composeUserInfo(users, user,
                                         ListUserMemberships(userOrgs, user),
                                         ListUserMemberships(userDepts, user))]
    /\ UNCHANGED <<users, orgs, depts, userOrgs, userDepts, now, nextSalt, held, streak, calls>>

\* the client keeps the token pair of a LoginResponse (resp.value: user.id)
KeepTokens ==
    /\ resp.op \in {"Login", "RefreshToken"}
    /\ resp.err = NoErr
    /\ held' = [access_token |-> resp.access_token,
                refresh_token |-> resp.refresh_token,
                user_id |-> resp.value]
    /\ UNCHANGED <<users, orgs, depts, userOrgs, userDepts, now, nextSalt, req, resp, streak, calls>>

(***************************************************************************)
(* AuthenticationService.Register / BootstrapAdmin                         *)
(***************************************************************************)
Done(op, value) == Resp(op, NoErr, TRUE, value, NoToken, NoToken, NoId, NoId)

\* Register's outcome: [err, users, hashed]
RegisterResult(email, username, password, primaryOrganizationID) ==
    IF ExistsByEmail(users, email)
    THEN [err |-> "email already registered", users |-> users, hashed |-> FALSE]
    ELSE IF ExistsByUsername(users, username)
    THEN [err |-> "username already taken", users |-> users, hashed |-> FALSE]
    ELSE IF \/ ~UniqueUserKeys(users, NoId, email, username)
            \/ (primaryOrganizationID # NoId
                /\ GetOrganizationByID(orgs, primaryOrganizationID) = NoId)
    THEN [err |-> ErrStore, users |-> users, hashed |-> TRUE]
    ELSE [err |-> NoErr, hashed |-> TRUE,
          users |-> Append(users,
                       NewUser(email, username, GenerateFromPassword(password, nextSalt),
                               FALSE, FALSE, primaryOrganizationID))]

Register(email, username, password, primaryOrganizationID) ==
    LET r == RegisterResult(email, username, password, primaryOrganizationID) IN
    /\ Len(r.users) <= MaxUsers
    /\ r.hashed => nextSalt < MaxSalt
    /\ users' = r.users
    /\ streak' = IF Len(r.users) > Len(users) THEN Append(streak, 0) ELSE streak
    /\ nextSalt' = IF r.hashed THEN nextSalt + 1 ELSE nextSalt
    /\ req' = [op |-> "Register", email |-> email, username |-> username,
               password |-> password, primary_organization_id |-> primaryOrganizationID]
    /\ resp' = IF r.err = NoErr THEN Done("Register", Len(r.users))
               ELSE Failure("Register", r.err)
    /\ UNCHANGED <<orgs, depts, userOrgs, userDepts, now, held, calls>>

\* minPasswordLength := s.config.PasswordMinLength; if <= 0 then 8
MinPasswordLength == IF PasswordMinLength <= 0 THEN 8 ELSE PasswordMinLength

\* variant: only the flag counts, a password that does not verify is kept
NeedPasswordUpdate_ForceOnly(input, user) == input.force_password_reset

\* variant: the password is hashed again on every run
NeedPasswordUpdate_Always(input, user) == TRUE

\* needPasswordUpdate of the update branch
NeedPasswordUpdate(input, user) ==
    input.force_password_reset \/ ~CompareHashAndPassword(user.password, input.password)

\* the membership and primary-organization writes that end BootstrapAdmin
BootstrapMembership(rows, userID, orgID) ==
    UpsertUserMembership(rows, userID, orgID, OrganizationRoleSystemAdmin, TRUE)

\* BootstrapAdmin's outcome: [err, org, user, orgs, users, userOrgs, hashed]
BootstrapAdminResult(input) ==
    LET ensured == EnsureOrganization(orgs, input.organization_name,
                       input.organization_description, input.organization_domain)
        email == TrimSpace(input.email)
        username == IF TrimSpace(input.username) = "" THEN email
                    ELSE TrimSpace(input.username)
        user == GetByEmail(users, email)
        stop(err, hashed) ==
            [err |-> err, org |-> NoId, user |-> NoId, orgs |-> ensured.orgs,
             users |-> users, userOrgs |-> userOrgs, hashed |-> hashed]
        finish(us, uid, hashed) ==
            [err |-> NoErr, org |-> ensured.id, user |-> uid, orgs |-> ensured.orgs,
             users |-> SetUserPrimaryOrganization(us, uid, ensured.id),
             userOrgs |-> BootstrapMembership(userOrgs, uid, ensured.id),
             hashed |-> hashed]
    IN
    IF ensured.err # NoErr THEN stop("ensure organization", FALSE)
    ELSE IF email = "" THEN stop("bootstrap admin email is required", FALSE)
    ELSE IF PasswordLen(input.password) < MinPasswordLength
    THEN stop("bootstrap admin password too short", FALSE)
    ELSE IF user = NoId
    THEN IF ~UniqueUserKeys(users, NoId, email, username)
         THEN stop("create admin user", TRUE)
         ELSE finish(Append(users,
                        NewUser(email, username,
                                GenerateFromPassword(input.password, nextSalt),
                                TRUE, TRUE, ensured.id)),
                     Len(users) + 1, TRUE)
    ELSE LET rehash == NeedPasswordUpdate(input, users[user])
             updated == [users[user] EXCEPT
                            !.username = username,
                            !.is_active = TRUE,
                            !.is_verified = TRUE,
                            !.is_super_admin = TRUE,
                            !.primary_organization_id = ensured.id,
                            !.password = IF rehash
                                         THEN GenerateFromPassword(input.password, nextSalt)
                                         ELSE @]
         IN  IF ~UniqueUserKeys(users, user, email, username)
             THEN stop("update admin user", rehash)
             ELSE finish([users EXCEPT ![user] = updated], user, rehash)

BootstrapAdmin(input) ==
    LET r == BootstrapAdminResult(input) IN
    /\ Len(r.users) <= MaxUsers
    /\ Len(r.orgs) <= MaxOrgs
    /\ r.hashed => nextSalt < MaxSalt
    /\ users' = r.users
    /\ orgs' = r.orgs
    /\ userOrgs' = r.userOrgs
    /\ streak' = IF Len(r.users) > Len(users) THEN Append(streak, 0) ELSE streak
    /\ nextSalt' = IF r.hashed THEN nextSalt + 1 ELSE nextSalt
    /\ req' = [op |-> "BootstrapAdmin", input |-> input,
               retry_of |-> IF req.op = "BootstrapAdmin" /\ resp.err = ErrStore
                               /\ req.input = input
                            THEN req.stage ELSE ""]
    /\ resp' = IF r.err = NoErr
               THEN Resp("BootstrapAdmin", NoErr, TRUE, r.user, NoToken, NoToken, r.org, NoId)
               ELSE Failure("BootstrapAdmin", r.err)
    /\ UNCHANGED <<depts, userDepts, now, held, calls>>

\* OrganizationRepository.EnsureOrganization called on its own; req.before is
\* the description the organization had when the call found it
EnsureOrganizationOp(name, description, domain) ==
    LET r == EnsureOrganization(orgs, name, description, domain) IN
    /\ Len(r.orgs) <= MaxOrgs
    /\ orgs' = r.orgs
    /\ req' = [op |-> "EnsureOrganization", name |-> name,
               description |-> description, domain |-> domain,
               before |-> IF r.id \in OrgIds(orgs) THEN orgs[r.id].description
                          ELSE ""]
    /\ resp' = IF r.err = NoErr THEN Done("EnsureOrganization", r.id)
               ELSE Failure("EnsureOrganization", r.err)
    /\ UNCHANGED <<users, depts, userOrgs, userDepts, now, nextSalt, held, streak, calls>>

\* OrganizationRepository.UpdateOrganization (db.Save writes every column,
\* zero values included): an organization is switched to inactive
DeactivateOrganization(organizationID) ==
    /\ organizationID \in OrgIds(orgs)
    /\ orgs[organizationID].is_active
    /\ orgs' = [orgs EXCEPT ![organizationID].is_active = FALSE]
    /\ req' = [op |-> "UpdateOrganization", organization_id |-> organizationID]
    /\ resp' = Resp("UpdateOrganization", NoErr, FALSE, NoId, NoToken, NoToken, NoId, NoId)
    /\ UNCHANGED <<users, depts, userOrgs, userDepts, now, nextSalt, held, streak, calls>>

\* the places where BootstrapAdmin returns a repository's error after the
\* organization is ensured: the account write (Create / Update), the
\* membership upsert, the primary-organization update
BootstrapStages == {"user", "membership", "primary"}

\* BootstrapAdmin when the repository call of `stage` fails: what was
\* written before it stays written (nothing is rolled back).  req records
\* what the run would have left had it not been interrupted.
BootstrapAdminInterrupted(input, stage) ==
    LET r == BootstrapAdminResult(input) IN
    /\ r.err = NoErr
    /\ Len(r.users) <= MaxUsers
    /\ Len(r.orgs) <= MaxOrgs
    /\ r.hashed => nextSalt < MaxSalt
    /\ orgs' = r.orgs
    /\ users' = IF stage = "user" THEN users ELSE r.users
    /\ userOrgs' = IF stage = "primary" THEN r.userOrgs ELSE userOrgs
    /\ streak' = IF Len(users') > Len(users) THEN Append(streak, 0) ELSE streak
    /\ nextSalt' = IF r.hashed THEN nextSalt + 1 ELSE nextSalt
    /\ req' = [op |-> "BootstrapAdmin", input |-> input, stage |-> stage,
               uninterrupted |-> [orgs |-> r.orgs, users |-> r.users,
                                  userOrgs |-> r.userOrgs]]
    /\ resp' = Failure("BootstrapAdmin", ErrStore)
    /\ UNCHANGED <<depts, userDepts, now, held, calls>>

(***************************************************************************)
(* OrganizationService                                                     *)
(***************************************************************************)
\* strings.ToLower on the domains the model draws
ToLower(str) == CASE str = "ACME.io" -> "acme.io" [] OTHER -> str

\* CreateOrganization's outcome: [err, id, orgs]
CreateOrganizationResult(name, description, domain, parentID) ==
    IF TrimSpace(name) = ""
    THEN [err |-> ErrInput, id |-> NoId, orgs |-> orgs]
    ELSE IF parentID # NoId /\ GetOrganizationByID(orgs, parentID) = NoId
    THEN [err |-> ErrOrganizationNotFound, id |-> NoId, orgs |-> orgs]
    ELSE InsertOrganization(orgs,
             NewOrganization(TrimSpace(name), TrimSpace(description),
                             TrimSpace(ToLower(domain)), parentID, TRUE))

CreateOrganization(name, description, domain, parentID) ==
    LET r == CreateOrganizationResult(name, description, domain, parentID) IN
    /\ Len(r.orgs) <= MaxOrgs
    /\ orgs' = r.orgs
    /\ req' = [op |-> "CreateOrganization", name |-> name, description |-> description,
               domain |-> domain, parent_id |-> parentID]
    /\ resp' = IF r.err = NoErr THEN Done("CreateOrganization", r.id)
               ELSE Failure("CreateOrganization", r.err)
    /\ UNCHANGED <<users, depts, userOrgs, userDepts, now, nextSalt, held, streak, calls>>

NewDepartment(organizationID, parentID, name) ==
    [organization_id |-> organizationID, parent_id |-> parentID, name |-> name,
     is_active |-> TRUE]

\* variant: the parent's organization is not compared
SameOrganization_Unchecked(ds, parentID, organizationID) == TRUE

\* parentDept.OrganizationID != input.OrganizationID, negated
SameOrganization(ds, parentID, organizationID) ==
    ds[parentID].organization_id = organizationID

\* CreateDepartment's outcome: [err, id, depts]
CreateDepartmentResult(organizationID, parentID, name) ==
    LET stop(err) == [err |-> err, id |-> NoId, depts |-> depts] IN
    IF organizationID = 0 THEN stop(ErrInput)
    ELSE IF TrimSpace(name) = "" THEN stop(ErrInput)
    ELSE IF GetOrganizationByID(orgs, organizationID) = NoId
    THEN stop(ErrOrganizationNotFound)
    ELSE IF parentID # NoId /\ GetDepartmentByID(depts, parentID) = NoId
    THEN stop(ErrDepartmentNotFound)
    ELSE IF parentID # NoId /\ ~SameOrganization(depts, parentID, organizationID)
    THEN stop("parent department belongs to another organization")
    ELSE [err |-> NoErr, id |-> Len(depts) + 1,
          depts |-> Append(depts, NewDepartment(organizationID, parentID, TrimSpace(name)))]

CreateDepartment(organizationID, parentID, name) ==
    LET r == CreateDepartmentResult(organizationID, parentID, name) IN
    /\ Len(r.depts) <= MaxDepts
    /\ depts' = r.depts
    /\ req' = [op |-> "CreateDepartment", organization_id |-> organizationID,
               parent_id |-> parentID, name |-> name]
    /\ resp' = IF r.err = NoErr THEN Done("CreateDepartment", r.id)
               ELSE Failure("CreateDepartment", r.err)
    /\ UNCHANGED <<users, orgs, userOrgs, userDepts, now, nextSalt, held, streak, calls>>

\* the membership writes of an assignment: clear (when primary), then upsert
AssignMembership(rows, userID, unitID, role, isPrimary) ==
    UpsertUserMembership(IF isPrimary THEN ClearPrimary(rows, userID) ELSE rows,
                         userID, unitID, role, isPrimary)

\* the response of an assignment: the membership row read back, or nil
Assigned(op, rows, userID, unitID) ==
    Resp(op, NoErr, GetUserMembership(rows, userID, unitID) # {}, unitID,
         NoToken, NoToken, NoId, NoId)

AssignUserToOrganization(userID, organizationID, role, isPrimary) ==
    LET op == "AssignUserToOrganization"
        err == IF userID = 0 \/ organizationID = 0 THEN ErrInput
               ELSE IF GetByID(users, userID) = NoId THEN ErrUserNotFound
               ELSE IF GetOrganizationByID(orgs, organizationID) = NoId
               THEN ErrOrganizationNotFound
               ELSE NoErr
        rows == AssignMembership(userOrgs, userID, organizationID, role, isPrimary)
    IN
    /\ req' = [op |-> op, user_id |-> userID, unit_id |-> organizationID,
               role |-> role, is_primary |-> isPrimary]
    /\ IF err # NoErr
       THEN /\ resp' = Failure(op, err)
            /\ UNCHANGED <<users, userOrgs>>
       ELSE /\ userOrgs' = rows
            /\ users' = IF isPrimary
                        THEN SetUserPrimaryOrganization(users, userID, organizationID)
                        ELSE users
            /\ resp' = Assigned(op, rows, userID, organizationID)
    /\ UNCHANGED <<orgs, depts, userDepts, now, nextSalt, held, streak, calls>>

AssignUserToDepartment(userID, departmentID, role, isPrimary) ==
    LET op == "AssignUserToDepartment"
        err == IF userID = 0 \/ departmentID = 0 THEN ErrInput
               ELSE IF GetByID(users, userID) = NoId THEN ErrUserNotFound
               ELSE IF GetDepartmentByID(depts, departmentID) = NoId
               THEN ErrDepartmentNotFound
               ELSE NoErr
        rows == AssignMembership(userDepts, userID, departmentID, role, isPrimary)
    IN
    /\ req' = [op |-> op, user_id |-> userID, unit_id |-> departmentID,
               role |-> role, is_primary |-> isPrimary]
    /\ IF err # NoErr
       THEN /\ resp' = Failure(op, err)
            /\ UNCHANGED <<users, userDepts>>
       ELSE /\ userDepts' = rows
            /\ users' = IF isPrimary
                        THEN SetUserPrimaryDepartment(users, userID, departmentID)
                        ELSE users
            /\ resp' = Assigned(op, rows, userID, departmentID)
    /\ UNCHANGED <<orgs, depts, userOrgs, now, nextSalt, held, streak, calls>>

RemoveUserOrganization(userID, organizationID) ==
    /\ userOrgs' = RemoveUserMembership(userOrgs, userID, organizationID)
    /\ req' = [op |-> "RemoveUserOrganization", user_id |-> userID,
               unit_id |-> organizationID]
    /\ resp' = Resp("RemoveUserOrganization", NoErr, FALSE, NoId,
                    NoToken, NoToken, NoId, NoId)
    /\ UNCHANGED <<users, orgs, depts, userDepts, now, nextSalt, held, streak, calls>>

RemoveUserDepartment(userID, departmentID) ==
    /\ userDepts' = RemoveUserMembership(userDepts, userID, departmentID)
    /\ req' = [op |-> "RemoveUserDepartment", user_id |-> userID,
               unit_id |-> departmentID]
    /\ resp' = Resp("RemoveUserDepartment", NoErr, FALSE, NoId,
                    NoToken, NoToken, NoId, NoId)
    /\ UNCHANGED <<users, orgs, depts, userOrgs, now, nextSalt, held, streak, calls>>

(***************************************************************************)
(* The initial state: an empty store, as after migration.                  *)
(***************************************************************************)
NoTokens == [access_token |-> NoToken, refresh_token |-> NoToken, user_id |-> NoId]

\* the request goroutines that may run at once, and one that runs no call
CallIds == 1..MaxCalls
Idle == [op |-> "", pc |-> "idle"]

Init ==
    /\ users = <<>>
    /\ orgs = <<>>
    /\ depts = <<>>
    /\ userOrgs = {}
    /\ userDepts = {}
    /\ now = 0
    /\ nextSalt = 1
    /\ req = [op |-> ""]
    /\ resp = NoResp
    /\ held = NoTokens
    /\ streak = <<>>
    /\ calls = [c \in CallIds |-> Idle]

(***************************************************************************)
(* Inputs                                                                  *)
(***************************************************************************)
\* config.applyBootstrapDefaults
DefaultBootstrap ==
    [organization_name |-> "Root Organization",
     organization_description |-> "System root organization",
     organization_domain |-> "root.local",
     email |-> "admin@root.local",
     username |-> "root-admin",
     password |-> "ChangeMe123!",
     force_password_reset |-> FALSE]

\* the same administrator bootstrapped into another organization
OtherOrgBootstrap ==
    [DefaultBootstrap EXCEPT !.organization_name = "Acme",
                             !.organization_description = "Acme Inc",
                             !.organization_domain = "acme.io"]

Roles == {"", OrganizationRoleSystemAdmin, "MANAGER"}
Identifiers == {"root-admin", "admin@root.local", "nobody"}
Passwords == {"ChangeMe123!", "Wrong-password"}
AllUserIds == 1..MaxUsers
AllOrgIds == 1..MaxOrgs
AllDeptIds == 1..MaxDepts

(***************************************************************************)
(* Credential verification: the bootstrapped administrator, changes to its  *)
(* membership, login, unlock, the clock.                                   *)
(***************************************************************************)
NextLogin ==
    \/ BootstrapAdmin(DefaultBootstrap)
    \/ \E u \in AllUserIds, r \in Roles :
           AssignUserToOrganization(u, 1, r, FALSE)
    \/ \E u \in AllUserIds : RemoveUserOrganization(u, 1)
    \/ \E i \in Identifiers, p \in Passwords, o \in AllOrgIds : Login(i, p, o, 0)
    \/ \E u \in AllUserIds : UnlockAccount(u)
    \/ Tick

SpecLogin == Init /\ [][NextLogin]_vars

(***************************************************************************)
(* Properties of credential verification (SpecLogin)                       *)
(***************************************************************************)
\* this step is the Login call recorded in req'
LoginStep ==
    /\ req'.op = "Login"
    /\ Login(req'.identifier, req'.password, req'.organization_id, req'.department_id)

\* the account the identifier of that call resolves to, in the state before it
LoginAccount == GetByEmailOrUsername(users, req'.identifier)

\* the account's password is the one given in the call
CorrectPassword == users[LoginAccount].password.pw = req'.password

LockedNow(u) == users[u].locked_until # Null /\ users[u].locked_until > now

\* a live membership of u in organization o whose role passes organization-scoped login
AdmissibleMember(u, o) ==
    \E m \in userOrgs :
        /\ ~m.deleted /\ m.user_id = u /\ m.unit_id = o
        /\ m.role \in {"", OrganizationRoleSystemAdmin}

\* C1: starting from an Active account with login_attempts = 0, the account
\* is not locked after fewer than MaxLoginAttempts consecutive failed
\* password checks (locked_until stays unset), and the failed check that
\* makes the run MaxLoginAttempts long, not the one after it, sets
\* locked_until to a time in the future.
C1_LockOnNthFailure ==
    /\ [](\A u \in UserIds(users) :
            /\ (streak[u] >= 0 /\ streak[u] < MaxLoginAttempts)
                   => users[u].locked_until = Null
            /\ streak[u] >= MaxLoginAttempts => users[u].locked_until # Null)
    /\ [][\A u \in UserIds(users) :
            (streak[u] = MaxLoginAttempts - 1 /\ streak'[u] = MaxLoginAttempts)
                => (users'[u].locked_until # Null /\ users'[u].locked_until > now')]_vars

C1_Witness ==
    \E u \in UserIds(users) :
        /\ streak[u] = MaxLoginAttempts
        /\ users[u].login_attempts = MaxLoginAttempts
        /\ LockedNow(u)
        /\ resp.op = "Login" /\ resp.err = ErrInvalidCredentials

\* C2: a Login against an account whose locked_until is set and in the
\* future fails with AccountLocked whatever the password, returns nothing,
\* and leaves every stored account field (login_attempts, locked_until,
\* last_login) as it was.
C2_LockedLoginRejected ==
    [][(LoginStep /\ LoginAccount # NoId /\ LockedNow(LoginAccount))
          => (/\ resp'.err = ErrAccountLocked
              /\ ~resp'.has_value
              /\ resp'.access_token = NoToken /\ resp'.refresh_token = NoToken
              /\ users' = users)]_vars

\* a locked account was just refused although the password given was right
C2_Witness ==
    /\ req.op = "Login" /\ resp.op = "Login" /\ resp.err = ErrAccountLocked
    /\ \E u \in UserIds(users) :
          /\ u = GetByEmailOrUsername(users, req.identifier)
          /\ LockedNow(u)
          /\ users[u].password.pw = req.password
          /\ users[u].login_attempts = MaxLoginAttempts

\* C3: for an active account whose locked_until has passed and which holds
\* an admissible membership in the requested organization, Login with the
\* correct password succeeds (tokens are returned) and the stored
\* login_attempts is 0 afterwards.
C3_ExpiredLockLoginSucceeds ==
    [][(/\ LoginStep /\ LoginAccount # NoId
        /\ users[LoginAccount].is_active
        /\ users[LoginAccount].locked_until # Null
        /\ users[LoginAccount].locked_until <= now
        /\ CorrectPassword
        /\ AdmissibleMember(LoginAccount, req'.organization_id))
          => (/\ resp'.err = NoErr
              /\ resp'.value = LoginAccount
              /\ resp'.access_token # NoToken /\ resp'.refresh_token # NoToken
              /\ users'[LoginAccount].login_attempts = 0)]_vars

\* a login has just succeeded on an account whose lock had run out
C3_Witness ==
    /\ req.op = "Login" /\ resp.op = "Login" /\ resp.err = NoErr
    /\ \E u \in UserIds(users) :
          /\ resp.value = u
          /\ users[u].locked_until # Null /\ users[u].locked_until <= now
          /\ users[u].last_login = now
          /\ users[u].login_attempts = 0

\* C4 as claimed: whenever the password check in Login succeeds, the account
\* afterwards has login_attempts = 0, locked_until cleared and last_login
\* set to the time of the login.
C4_PasswordOkResetsAll ==
    [][(/\ LoginStep /\ LoginAccount # NoId
        /\ ~LockedNow(LoginAccount)
        /\ users[LoginAccount].is_active
        /\ CorrectPassword)
          => (/\ users'[LoginAccount].login_attempts = 0
              /\ users'[LoginAccount].locked_until = Null
              /\ users'[LoginAccount].last_login = now)]_vars

\* C4 as amended: a Login that succeeds leaves the account with
\* login_attempts = 0 and last_login set to the time of the login, and
\* leaves locked_until as stored (an expired lock is not cleared); a Login
\* whose password check succeeds but which is then refused changes no
\* account field.
C4_SuccessResetsCounter ==
    [][(/\ LoginStep /\ LoginAccount # NoId
        /\ ~LockedNow(LoginAccount)
        /\ users[LoginAccount].is_active
        /\ CorrectPassword)
          => IF resp'.err = NoErr
             THEN users' = [users EXCEPT ![LoginAccount].login_attempts = 0,
                                         ![LoginAccount].last_login = now]
             ELSE users' = users]_vars

\* a login succeeded after failed attempts and an expired lock: the counter
\* is back to 0, the expired locked_until is still stored
C4_Witness ==
    /\ req.op = "Login" /\ resp.op = "Login" /\ resp.err = NoErr
    /\ \E u \in UserIds(users) :
          /\ resp.value = u
          /\ users[u].login_attempts = 0
          /\ users[u].last_login = now
          /\ users[u].locked_until # Null
          /\ streak[u] = -1

(***************************************************************************)
(* Token codec: the bootstrapped administrator logs in, the client keeps    *)
(* the pair it was given, and presents to ValidateToken and RefreshToken    *)
(* the tokens it holds, forgeries of them, and tokens built by a party that *)
(* knows the signing secret.                                               *)
(***************************************************************************)
\* the payload changed after signing (the expiry pushed out), the signature kept
Tamper(token) == [token EXCEPT !.payload.exp = @ + 1]

\* the same header and payload signed with another secret
Resign(token, key) == SignedString(token.alg, token.payload, key)

TokenTypes == {JSONString("access"), JSONString("refresh"), JSONAbsent}
TokenSubjects == {JSONString("1"), JSONString("2"), JSONString("abc"), JSONNumber(1), JSONAbsent}
TokenExpiries == {1, MaxTime + 1}

\* tokens signed with the service's secret under HS256
CraftedTokens ==
    {SignedString("HS256", Payload(ty, sub, exp, 0), JWTSecret) :
        ty \in TokenTypes, sub \in TokenSubjects, exp \in TokenExpiries}

\* other algorithms in the header
OtherAlgTokens ==
    {SignedString(alg, Payload(ty, JSONString("1"), MaxTime + 1, 0), JWTSecret) :
        alg \in {"HS384", "HS512", "none"}, ty \in {JSONString("access"), JSONString("refresh")}}

PresentedTokens ==
    CraftedTokens \cup OtherAlgTokens
        \cup {NoToken, held.access_token, held.refresh_token,
              Tamper(held.access_token), Tamper(held.refresh_token),
              Resign(held.access_token, OtherSecret),
              Resign(held.refresh_token, OtherSecret)}

NextToken ==
    \/ BootstrapAdmin(DefaultBootstrap)
    \/ Login("root-admin", "ChangeMe123!", 1, 0)
    \/ KeepTokens
    \/ Tick
    \/ \E token \in PresentedTokens : ValidateToken(token)
    \/ \E token \in PresentedTokens : RefreshToken(token)

SpecToken == Init /\ [][NextToken]_vars

\* this step is the ValidateToken / RefreshToken call recorded in req'
ValidateStep == req'.op = "ValidateToken" /\ ValidateToken(req'.token)
RefreshStep == req'.op = "RefreshToken" /\ RefreshToken(req'.token)

\* the token is one the service signed
SignedByService(token) == token.sig = MAC("HS256", JWTSecret, token.payload) /\ token.alg = "HS256"

Rejected(r) == r.err = ErrInvalidToken /\ ~r.has_value

\* C7: every access token produced by the issuance path is accepted by
\* ValidateToken while unexpired, and ValidateToken returns the id of the
\* account it was issued for; a token signed with a different secret or
\* with an altered payload is rejected.
C7_AccessTokenRoundTrip ==
    [][ValidateStep =>
         /\ (/\ held.access_token # NoToken
             /\ req'.token = held.access_token
             /\ now < held.access_token.payload.exp)
                => (resp'.err = NoErr /\ resp'.has_value /\ resp'.value = held.user_id)
         /\ (/\ held.access_token # NoToken
             /\ req'.token \in {Tamper(held.access_token),
                                Resign(held.access_token, OtherSecret)})
                => Rejected(resp')]_vars

\* an access token just issued to the administrator has been refused
C7_Witness ==
    /\ req.op = "ValidateToken" /\ resp.op = "ValidateToken"
    /\ held.access_token # NoToken /\ held.user_id = 1
    /\ req.token = held.access_token
    /\ req.token = generateAccessToken(1, now)
    /\ resp.err = ErrInvalidToken

\* C8: a refresh token returned by Login is accepted by RefreshToken for as
\* long as it is unexpired and its account exists and is active, and the
\* call returns a new access/refresh pair for that account.
C8_RefreshTokenAccepted ==
    [][(/\ RefreshStep
        /\ held.refresh_token # NoToken
        /\ req'.token = held.refresh_token
        /\ now < held.refresh_token.payload.exp
        /\ held.user_id \in LiveUserIds(users)
        /\ users[held.user_id].is_active)
          => (/\ resp'.err = NoErr
              /\ resp'.value = held.user_id
              /\ resp'.access_token = generateAccessToken(held.user_id, now)
              /\ resp'.refresh_token = generateRefreshToken(held.user_id, now))]_vars

\* a refresh token just returned by Login has been refused
C8_Witness ==
    /\ req.op = "RefreshToken" /\ resp.op = "RefreshToken"
    /\ held.refresh_token # NoToken /\ held.user_id = 1
    /\ req.token = held.refresh_token
    /\ req.token = generateRefreshToken(1, now)
    /\ 1 \in LiveUserIds(users) /\ users[1].is_active
    /\ resp.err = ErrInvalidToken

\* C9: RefreshToken rejects every token whose type claim is "access" and
\* ValidateToken rejects every token whose type claim is "refresh", also
\* when the token is correctly signed and unexpired.
C9_WrongTypeRejected ==
    [][/\ (RefreshStep /\ req'.token.payload.type = JSONString("access"))
             => (Rejected(resp') /\ resp'.access_token = NoToken
                                 /\ resp'.refresh_token = NoToken)
       /\ (ValidateStep /\ req'.token.payload.type = JSONString("refresh"))
             => Rejected(resp')]_vars

\* RefreshToken has just refused an access-type token that is signed by the
\* service, unexpired, and names an existing active account
C9_Witness ==
    /\ req.op = "RefreshToken" /\ resp.op = "RefreshToken"
    /\ req.token.payload.type = JSONString("access")
    /\ req.token.payload.user_id = JSONString("1")
    /\ SignedByService(req.token)
    /\ ClaimsTimeValid(req.token.payload, now)
    /\ 1 \in LiveUserIds(users) /\ users[1].is_active
    /\ Rejected(resp)

\* C10: every failure of RefreshToken and ValidateToken caused by the token
\* (malformed, bad signature, expired, wrong type, missing or non-string or
\* non-numeric user_id, account missing or inactive) is reported as
\* InvalidToken with no result value.
C10_OnlyInvalidToken ==
    [][(ValidateStep \/ RefreshStep)
          => (resp'.err # NoErr => Rejected(resp'))]_vars

\* ValidateToken has answered a well-signed access token whose user_id is
\* not a number with the parser's error and a non-nil result
C10_Witness ==
    /\ req.op = "ValidateToken" /\ resp.op = "ValidateToken"
    /\ req.token.payload.user_id = JSONString("abc")
    /\ SignedByService(req.token)
    /\ resp.err = ErrParseUint
    /\ resp.has_value /\ resp.value = 0

(***************************************************************************)
(* Tenant provisioning: bootstrap, registration, departments, and the       *)
(* assignment and removal of the first account's memberships, one call at   *)
(* a time.                                                                 *)
(***************************************************************************)
NextTenant ==
    \/ \E input \in {DefaultBootstrap, OtherOrgBootstrap} : BootstrapAdmin(input)
    \/ \E o \in {NoId} \cup AllOrgIds :
           Register("user@acme.io", "user", "ChangeMe123!", o)
    \/ \E o \in AllOrgIds : depts = <<>> /\ CreateDepartment(o, NoId, "Engineering")
    \/ \E o \in AllOrgIds, p \in BOOLEAN :
           AssignUserToOrganization(1, o, "", p)
    \/ \E d \in {1}, p \in BOOLEAN :
           AssignUserToDepartment(1, d, "", p)
    \/ \E o \in AllOrgIds : RemoveUserOrganization(1, o)
    \/ \E d \in {1} : RemoveUserDepartment(1, d)

SpecTenant == Init /\ [][NextTenant]_vars

\* the live memberships of user u flagged primary
PrimaryMemberships(rows, u) == {m \in Live(rows) : m.user_id = u /\ m.is_primary}

\* C5: after any sequence of completed assignment, bootstrap and removal
\* calls, every user has at most one organization membership and at most
\* one department membership with is_primary = true.
C5_AtMostOnePrimary ==
    \A u \in UserIds(users) :
        /\ Cardinality(PrimaryMemberships(userOrgs, u)) <= 1
        /\ Cardinality(PrimaryMemberships(userDepts, u)) <= 1

\* BootstrapAdmin has just left the administrator with two primary
\* organization memberships
C5_Witness ==
    /\ resp.op = "BootstrapAdmin" /\ resp.err = NoErr
    /\ \E m1, m2 \in PrimaryMemberships(userOrgs, resp.value) :
          m1.unit_id # m2.unit_id

\* the account field agrees with the primary membership of that type
PrimaryInSync(rows, u, field) ==
    /\ \A m \in PrimaryMemberships(rows, u) : field = m.unit_id
    /\ field # NoId => \E m \in PrimaryMemberships(rows, u) : m.unit_id = field

\* C6: after any sequence of completed Register, BootstrapAdmin, assignment
\* and removal calls, an account's primary_organization_id (resp.
\* primary_department_id) equals X exactly when the user has a live
\* membership in X with is_primary = true, and is unset when the user has
\* no primary membership of that type.
C6_PrimaryCacheInSync ==
    \A u \in UserIds(users) :
        /\ PrimaryInSync(userOrgs, u, users[u].primary_organization_id)
        /\ PrimaryInSync(userDepts, u, users[u].primary_department_id)

\* Register has just stored an account whose primary_organization_id names
\* an organization the account has no membership in
C6_Witness ==
    /\ resp.op = "Register" /\ resp.err = NoErr
    /\ users[resp.value].primary_organization_id # NoId
    /\ \A m \in userOrgs : m.user_id # resp.value

(***************************************************************************)
(* Further properties of the token codec (SpecToken)                       *)
(***************************************************************************)
\* C11: tokens are signed with the one algorithm HS256, and RefreshToken
\* and ValidateToken reject a token whose header names any other algorithm,
\* other HMAC variants (HS384, HS512) computed with the correct secret
\* included.
C11_OnlyHS256Accepted ==
    [][/\ (resp'.access_token # NoToken => resp'.access_token.alg = "HS256")
       /\ (resp'.refresh_token # NoToken => resp'.refresh_token.alg = "HS256")
       /\ ((ValidateStep \/ RefreshStep) /\ req'.token.alg # "HS256")
             => Rejected(resp')]_vars

\* ValidateToken has accepted a token whose header names HS384
C11_Witness ==
    /\ req.op = "ValidateToken" /\ resp.op = "ValidateToken"
    /\ req.token.alg = "HS384"
    /\ req.token.sig = MAC("HS384", JWTSecret, req.token.payload)
    /\ resp.err = NoErr /\ resp.has_value /\ resp.value = 1

(***************************************************************************)
(* Tokens against the account's state: the administrator is bootstrapped,   *)
(* logs in with the right or a wrong password, is deactivated or deleted,   *)
(* while tokens naming an account are presented.                            *)
(***************************************************************************)
\* unexpired tokens of either type, signed by the service, naming account u
AccountTokens ==
    {SignedString("HS256", Payload(JSONString(ty), JSONString(DigitStrings[u]),
                                   MaxTime + 1, 0), JWTSecret) :
        ty \in {"access", "refresh"}, u \in AllUserIds}

NextAccount ==
    \/ BootstrapAdmin(DefaultBootstrap)
    \/ \E p \in Passwords : Login("root-admin", p, 1, 0)
    \/ \E u \in AllUserIds : DeactivateUser(u)
    \/ \E u \in AllUserIds : DeleteUser(u)
    \/ Tick
    \/ \E token \in AccountTokens : ValidateToken(token)
    \/ \E token \in AccountTokens : RefreshToken(token)

SpecAccount == Init /\ [][NextAccount]_vars

\* the token is an access token the parser accepts now, and names account u
ValidAccessTokenFor(token, u) ==
    /\ token.alg \in {"HS256", "HS384", "HS512"}
    /\ token.sig = MAC(token.alg, JWTSecret, token.payload)
    /\ now < token.payload.exp /\ now >= token.payload.nbf
    /\ token.payload.type = JSONString("access")
    /\ token.payload.user_id = JSONString(DigitStrings[u])

\* C12: ValidateToken's outcome depends only on the token and the clock: a
\* valid unexpired access token yields the account id it names whatever the
\* state of the account (locked, deactivated, deleted, or not there at
\* all), and the call writes nothing.
C12_ValidateIgnoresAccount ==
    [][\A u \in AllUserIds :
          (ValidateStep /\ ValidAccessTokenFor(req'.token, u))
             => (/\ resp'.err = NoErr /\ resp'.has_value /\ resp'.value = u
                 /\ UNCHANGED <<users, orgs, depts, userOrgs, userDepts>>)]_vars

\* ValidateToken has returned the id of an account that is locked,
\* deactivated and deleted
C12_Witness ==
    /\ req.op = "ValidateToken" /\ resp.op = "ValidateToken"
    /\ ValidAccessTokenFor(req.token, 1)
    /\ resp.err = NoErr /\ resp.value = 1
    /\ 1 \in UserIds(users)
    /\ users[1].deleted /\ ~users[1].is_active /\ LockedNow(1)

(***************************************************************************)
(* Bootstrap: BootstrapAdmin with the default input and variations of it,   *)
(* registrations that collide or not with the administrator's email and     *)
(* username, and changes to the memberships in the bootstrap organization.  *)
(***************************************************************************)
\* cmd/bootstrap with -force-password
ForcedBootstrap == [DefaultBootstrap EXCEPT !.force_password_reset = TRUE]

\* the password rotated
RotatedBootstrap == [DefaultBootstrap EXCEPT !.password = "Rotated456789"]

\* another description for the same organization
RedescribedBootstrap ==
    [DefaultBootstrap EXCEPT !.organization_description = " Second description "]

\* inputs that fail validation after the organization is ensured
ShortPasswordBootstrap == [DefaultBootstrap EXCEPT !.password = "short"]
BlankEmailBootstrap == [DefaultBootstrap EXCEPT !.email = " "]

BootstrapInputs ==
    {DefaultBootstrap, ForcedBootstrap, RotatedBootstrap, RedescribedBootstrap,
     ShortPasswordBootstrap, BlankEmailBootstrap}

Descriptions == {"System root organization", " Second description ", " "}

NextBootstrap ==
    \/ \E input \in BootstrapInputs : BootstrapAdmin(input)
    \/ \E input \in BootstrapInputs, stage \in BootstrapStages :
           BootstrapAdminInterrupted(input, stage)
    \/ \E e \in {"admin@root.local", "user@acme.io"}, n \in {"root-admin", "user"} :
           Register(e, n, "ChangeMe123!", NoId)
    \/ \E u \in AllUserIds : AssignUserToOrganization(u, 1, "MANAGER", FALSE)
    \/ \E u \in AllUserIds : RemoveUserOrganization(u, 1)
    \/ \E d \in Descriptions, dom \in {"root.local", ""} :
           EnsureOrganizationOp("Root Organization", d, dom)

SpecBootstrap == Init /\ [][NextBootstrap]_vars

\* this step is BootstrapAdmin run again with the input of the successful
\* run that has just returned
SecondBootstrapRun ==
    /\ req.op = "BootstrapAdmin" /\ resp.op = "BootstrapAdmin" /\ resp.err = NoErr
    /\ BootstrapAdmin(req.input)

\* one organization of the input's domain, one account of the input's
\* email, and one membership row between them, administrator and primary
OneOfEach(input, os, us, rows) ==
    /\ Cardinality({o \in OrgIds(os) : os[o].domain = TrimSpace(input.organization_domain)}) = 1
    /\ Cardinality({u \in UserIds(us) : us[u].email = TrimSpace(input.email)}) = 1
    /\ \A o \in OrgIds(os), u \in UserIds(us) :
          (os[o].domain = TrimSpace(input.organization_domain)
             /\ us[u].email = TrimSpace(input.email))
          => /\ Cardinality({m \in rows : m.user_id = u /\ m.unit_id = o}) = 1
             /\ \A m \in rows : (m.user_id = u /\ m.unit_id = o)
                   => (m.role = OrganizationRoleSystemAdmin /\ m.is_primary)

\* C13 as claimed: BootstrapAdmin invoked twice in a row with identical
\* input leaves one organization, one admin account and one membership row
\* between them (SYSTEM_ADMIN, primary), and the second invocation does not
\* change the stored password hash.
C13_SecondRunKeepsHash ==
    [][SecondBootstrapRun
          => (/\ resp'.err = NoErr
              /\ OneOfEach(req.input, orgs', users', userOrgs')
              /\ users'[resp'.value].password = users[resp'.value].password)]_vars

\* C13 as amended: the second of two identical runs succeeds and changes
\* nothing in the store (one organization, one admin account, one
\* membership row, SYSTEM_ADMIN and primary), except that an input with
\* ForcePasswordReset set makes it hash the password again.
C13_SecondRunIdempotent ==
    [][SecondBootstrapRun
          => (/\ resp'.err = NoErr /\ resp'.value = resp.value
              /\ OneOfEach(req.input, orgs', users', userOrgs')
              /\ orgs' = orgs /\ userOrgs' = userOrgs
              /\ IF req.input.force_password_reset
                 THEN users' = [users EXCEPT ![resp.value].password =
                                    GenerateFromPassword(req.input.password, nextSalt)]
                 ELSE users' = users /\ nextSalt' = nextSalt)]_vars

\* the default bootstrap has run twice in a row on an empty store: one
\* organization, one account, one membership, the hash of the first run
C13_Witness ==
    /\ req.op = "BootstrapAdmin" /\ req.input = DefaultBootstrap
    /\ resp.op = "BootstrapAdmin" /\ resp.err = NoErr
    /\ Len(orgs) = 1 /\ Len(users) = 1 /\ Cardinality(userOrgs) = 1
    /\ users[1].password = GenerateFromPassword("ChangeMe123!", 1)
    /\ nextSalt = 2
    /\ OneOfEach(DefaultBootstrap, orgs, users, userOrgs)

\* C14: after every successful BootstrapAdmin, in the create and in the
\* update branch, the admin account is active, verified and super-admin,
\* its primary_organization_id is the bootstrap organization, and a live
\* membership (admin, bootstrap organization) exists with role SYSTEM_ADMIN
\* and is_primary = true.
C14_BootstrapPostcondition ==
    (resp.op = "BootstrapAdmin" /\ resp.err = NoErr)
        => LET admin == users[resp.value]
               org == resp.logged_organization
           IN  /\ admin.is_active /\ admin.is_verified /\ admin.is_super_admin
               /\ ~admin.deleted
               /\ admin.primary_organization_id = org
               /\ \E m \in Live(userOrgs) :
                     /\ m.user_id = resp.value /\ m.unit_id = org
                     /\ m.role = OrganizationRoleSystemAdmin /\ m.is_primary

\* BootstrapAdmin has just succeeded and the administrator's membership in
\* the bootstrap organization is a soft-deleted row
C14_Witness ==
    /\ resp.op = "BootstrapAdmin" /\ resp.err = NoErr
    /\ \E m \in userOrgs :
          /\ m.user_id = resp.value /\ m.unit_id = resp.logged_organization
          /\ m.role = OrganizationRoleSystemAdmin /\ m.is_primary /\ m.deleted
    /\ \A m \in Live(userOrgs) : m.user_id # resp.value

\* the accounts with the salt of each hash left out
WithoutSalt(us) == [u \in UserIds(us) |-> [us[u] EXCEPT !.password = @.pw]]

\* this step is BootstrapAdmin run again with the input of the run that has
\* just failed part-way
BootstrapRetry ==
    /\ req.op = "BootstrapAdmin" /\ resp.op = "BootstrapAdmin" /\ resp.err = ErrStore
    /\ BootstrapAdmin(req.input)

SecondEnsureCall ==
    /\ req.op = "EnsureOrganization" /\ resp.op = "EnsureOrganization"
    /\ resp.err = NoErr
    /\ req'.op = "EnsureOrganization"
    /\ EnsureOrganizationOp(req'.name, req'.description, req'.domain)
    /\ req'.domain = req.domain /\ TrimSpace(req.domain) # ""
    /\ TrimSpace(req.description) # "" /\ TrimSpace(req'.description) # ""
    /\ req'.description # req.description

\* C16: EnsureOrganization called twice with the same non-empty domain and
\* two different non-empty descriptions leaves exactly one organization row
\* with that domain, and its stored description is that of the second call.
C16_SecondDescriptionWins ==
    [][SecondEnsureCall
          => (/\ resp'.err = NoErr /\ resp'.value = resp.value
              /\ Len(orgs') = Len(orgs)
              /\ Cardinality({o \in OrgIds(orgs') :
                                 orgs'[o].domain = TrimSpace(req'.domain)}) = 1
              /\ orgs'[resp'.value].domain = TrimSpace(req'.domain)
              /\ orgs'[resp'.value].description = TrimSpace(req'.description))]_vars

\* the second call has just returned; the organization carries its description
C16_Witness ==
    /\ req.op = "EnsureOrganization" /\ resp.op = "EnsureOrganization"
    /\ resp.err = NoErr
    /\ req.description = " Second description " /\ req.domain = "root.local"
    /\ req.before = "System root organization"
    /\ Len(orgs) = 1 /\ users = <<>>
    /\ orgs[1].domain = "root.local"
    /\ orgs[1].description = "Second description"

\* C17: after any sequence of Register and BootstrapAdmin calls, successful
\* or failing, no two non-deleted accounts share an email and no two share
\* a username.
C17_UniqueEmailAndUsername ==
    \A i, j \in LiveUserIds(users) :
        i # j => (users[i].email # users[j].email
                  /\ users[i].username # users[j].username)

\* two accounts are stored, and BootstrapAdmin has just been refused the
\* username of the other one
C17_Witness ==
    /\ Len(users) = 2 /\ LiveUserIds(users) = {1, 2}
    /\ resp.op = "BootstrapAdmin" /\ resp.err = "update admin user"
    /\ \E i, j \in {1, 2} :
          /\ users[i].email = "admin@root.local" /\ users[i].username = "user"
          /\ users[j].email = "user@acme.io" /\ users[j].username = "root-admin"

(***************************************************************************)
(* Further properties of Login (SpecLogin)                                 *)
(***************************************************************************)
\* the store as one BootstrapAdmin run with the default input leaves it
\* when started on an empty store
FreshlyBootstrapped ==
    /\ orgs = <<NewOrganization("Root Organization", "System root organization",
                                "root.local", NoId, TRUE)>>
    /\ users = <<NewUser("admin@root.local", "root-admin",
                         GenerateFromPassword("ChangeMe123!", 1), TRUE, TRUE, 1)>>
    /\ userOrgs = {Membership(1, 1, OrganizationRoleSystemAdmin, TRUE)}
    /\ depts = <<>> /\ userDepts = {}

\* C18: on a freshly bootstrapped system, Login with the admin's username,
\* the bootstrap password and the bootstrap organization's id succeeds; the
\* response has token_type "Bearer" and a user projection with
\* is_super_admin = true.
C18_FreshAdminLogin ==
    [][(/\ FreshlyBootstrapped
        /\ LoginStep
        /\ req'.identifier = "root-admin" /\ req'.password = "ChangeMe123!"
        /\ req'.organization_id = 1)
          => (/\ resp'.err = NoErr
              /\ resp'.access_token # NoToken /\ resp'.refresh_token # NoToken
              /\ resp'.token_type = "Bearer"
              /\ resp'.user.id = 1 /\ resp'.user.username = "root-admin"
              /\ resp'.user.is_super_admin
              /\ resp'.logged_organization = 1)]_vars

\* the administrator's first login on the freshly bootstrapped system has
\* just succeeded
C18_Witness ==
    /\ req.op = "Login" /\ req.identifier = "root-admin"
    /\ req.password = "ChangeMe123!" /\ req.organization_id = 1
    /\ resp.op = "Login" /\ resp.err = NoErr
    /\ resp.token_type = "Bearer" /\ resp.user.is_super_admin
    /\ users = <<[NewUser("admin@root.local", "root-admin",
                          GenerateFromPassword("ChangeMe123!", 1), TRUE, TRUE, 1)
                     EXCEPT !.last_login = now]>>
    /\ userOrgs = {Membership(1, 1, OrganizationRoleSystemAdmin, TRUE)}
    /\ Len(orgs) = 1

\* no live account has this email or username
NoAccountMatches(identifier) ==
    \A u \in LiveUserIds(users) :
        users[u].email # identifier /\ users[u].username # identifier

\* an active, unlocked live account has this email or username, and the
\* password is not its password
WrongPasswordFor(identifier, password) ==
    \E u \in LiveUserIds(users) :
        /\ users[u].email = identifier \/ users[u].username = identifier
        /\ users[u].is_active /\ ~LockedNow(u)
        /\ users[u].password.pw # password

\* C20: Login with an identifier that matches no account fails with
\* InvalidCredentials and changes no stored state; a wrong password for an
\* existing active unlocked account gets the same error.
C20_UnknownUserSameError ==
    [][LoginStep =>
         /\ NoAccountMatches(req'.identifier) =>
               /\ resp' = Failure("Login", ErrInvalidCredentials)
               /\ UNCHANGED <<users, orgs, depts, userOrgs, userDepts>>
         /\ WrongPasswordFor(req'.identifier, req'.password) =>
               resp' = Failure("Login", ErrInvalidCredentials)]_vars

\* a Login with an identifier no account has was just refused, while an
\* untouched active unlocked account exists
C20_Witness ==
    /\ req.op = "Login" /\ req.identifier = "nobody"
    /\ NoAccountMatches("nobody")
    /\ resp = Failure("Login", ErrInvalidCredentials)
    /\ \E u \in LiveUserIds(users) :
          /\ users[u].is_active /\ users[u].locked_until = Null
          /\ users[u].login_attempts = 0

(***************************************************************************)
(* The login endpoint: the bootstrapped administrator, requests with and   *)
(* without the optional fields, unlock, the clock.                         *)
(***************************************************************************)
RequestUsernames == {"root-admin", "nobody", ""}
RequestPasswords == {"ChangeMe123!", "Wrong-password", ""}
RequestIds == {NoId, 1}

NextHandler ==
    \/ BootstrapAdmin(DefaultBootstrap)
    \/ \E i \in RequestUsernames, p \in RequestPasswords,
          o \in RequestIds, role \in RequestIds :
           LoginHandler(i, p, o, NoId, role)
    \/ \E u \in AllUserIds : UnlockAccount(u)
    \/ Tick
    \/ AssignUserToOrganization(1, 1, "MANAGER", FALSE)
    \/ RemoveUserOrganization(1, 1)
    \/ DeactivateUser(1)
    \/ \E token \in AccountTokens \cup {NoToken} : RefreshTokenHandler(token)

SpecHandler == Init /\ [][NextHandler]_vars

\* this step is the endpoint call recorded in req'
LoginHandlerStep ==
    /\ req'.op = "LoginHandler"
    /\ LoginHandler(req'.identifier, req'.password, req'.organization_id,
                    req'.department_id, req'.role_id)

\* C19: the login endpoint treats role_id and department_id as optional: a
\* request carrying username, password and organization_id but no role_id
\* passes request validation and reaches the authentication service.
C19_RoleIdOptional ==
    [][(/\ LoginHandlerStep
        /\ req'.identifier # "" /\ req'.password # ""
        /\ req'.organization_id # NoId
        /\ req'.role_id = NoId)
          => (req'.reached_service /\ resp'.status # HTTPValidationError)]_vars

\* the administrator's correct login request without role_id was answered
\* with a validation error and never reached the service
C19_Witness ==
    /\ req.op = "LoginHandler" /\ req.identifier = "root-admin"
    /\ req.password = "ChangeMe123!" /\ req.organization_id = 1
    /\ req.role_id = NoId
    /\ ~req.reached_service /\ resp.status = HTTPValidationError
    /\ Len(users) = 1 /\ users[1].last_login = Null

(***************************************************************************)
(* Organization-scoped login (SpecLogin)                                   *)
(***************************************************************************)
\* the call's identifier and password are those of an active account that
\* is not locked now
GoodCredentials ==
    /\ LoginAccount # NoId
    /\ users[LoginAccount].is_active /\ ~LockedNow(LoginAccount)
    /\ CorrectPassword

\* the live membership rows of the call's account in the requested organization
RequestedMembership ==
    {m \in userOrgs : /\ ~m.deleted /\ m.user_id = LoginAccount
                      /\ m.unit_id = req'.organization_id}

\* C21: Login succeeds only if the account holds a live membership in the
\* requested organization_id; with correct credentials but no such
\* membership it fails with the not-a-member error and returns no tokens.
C21_LoginNeedsMembership ==
    [][LoginStep =>
         /\ resp'.err = NoErr => RequestedMembership # {}
         /\ (GoodCredentials /\ RequestedMembership = {}) =>
               /\ resp'.err = ErrNotAMember
               /\ resp'.access_token = NoToken /\ resp'.refresh_token = NoToken]_vars

\* the administrator, whose membership in organization 1 was removed, gave
\* the right password for organization 1 and was refused as not a member
C21_Witness ==
    /\ req.op = "Login" /\ req.identifier = "root-admin"
    /\ req.password = "ChangeMe123!" /\ req.organization_id = 1
    /\ resp.err = ErrNotAMember /\ resp.access_token = NoToken
    /\ \E m \in userOrgs : m.user_id = 1 /\ m.unit_id = 1 /\ m.deleted

(***************************************************************************)
(* Memberships in two organizations: the bootstrapped administrator, a     *)
(* second organization, assignment and removal, organization-scoped login. *)
(***************************************************************************)
NextMember ==
    \/ BootstrapAdmin(DefaultBootstrap)
    \/ CreateOrganization("Acme", "Acme Inc", "acme.io", NoId)
    \/ \E o \in AllOrgIds, r \in Roles, p \in BOOLEAN :
           AssignUserToOrganization(1, o, r, p)
    \/ \E o \in AllOrgIds : RemoveUserOrganization(1, o)
    \/ \E p \in Passwords, o \in AllOrgIds : Login("root-admin", p, o, 0)
    \/ \E u \in AllUserIds : UnlockAccount(u)

SpecMember == Init /\ [][NextMember]_vars

\* C22: Login is rejected whenever the account's membership in the requested
\* organization carries a role that is neither empty nor SYSTEM_ADMIN; only
\* empty-role or SYSTEM_ADMIN memberships pass organization-scoped login,
\* whatever roles the account holds in other organizations.
C22_RoleScopedToOrganization ==
    [][(LoginStep /\ LoginAccount # NoId) =>
         LET admissible == \A m \in RequestedMembership :
                               m.role \in {"", OrganizationRoleSystemAdmin}
         IN
         /\ ~admissible => /\ resp'.err # NoErr
                           /\ resp'.access_token = NoToken
                           /\ resp'.refresh_token = NoToken
         /\ (GoodCredentials /\ ~admissible) => resp'.err = ErrRoleNotAllowed
         /\ (GoodCredentials /\ admissible /\ RequestedMembership # {}) =>
               /\ resp'.err = NoErr
               /\ resp'.logged_organization = req'.organization_id]_vars

\* the administrator, a SYSTEM_ADMIN of organization 2 and a MANAGER of
\* organization 1, gave the right password for organization 1 and was
\* refused for the role
C22_Witness ==
    /\ req.op = "Login" /\ req.identifier = "root-admin"
    /\ req.password = "ChangeMe123!" /\ req.organization_id = 1
    /\ resp.err = ErrRoleNotAllowed /\ resp.access_token = NoToken
    /\ \E m \in Live(userOrgs) : m.user_id = 1 /\ m.unit_id = 1 /\ m.role = "MANAGER"
    /\ \E m \in Live(userOrgs) :
          m.user_id = 1 /\ m.unit_id = 2 /\ m.role = OrganizationRoleSystemAdmin

(***************************************************************************)
(* Assignment to missing ends (SpecTenant)                                 *)
(***************************************************************************)
\* C23: AssignUserToOrganization fails with UserNotFound when the user does
\* not exist and OrganizationNotFound when the organization does not exist
\* (AssignUserToDepartment: UserNotFound / DepartmentNotFound; the user is
\* looked up first), and in each of these cases no membership row, primary
\* flag or account field is changed.
C23_AssignToMissingEnds ==
    [][/\ (/\ req'.op = "AssignUserToOrganization"
           /\ AssignUserToOrganization(req'.user_id, req'.unit_id, req'.role,
                                       req'.is_primary)
           /\ req'.user_id # 0 /\ req'.unit_id # 0)
          => /\ req'.user_id \notin LiveUserIds(users) =>
                   /\ resp' = Failure("AssignUserToOrganization", ErrUserNotFound)
                   /\ UNCHANGED <<users, userOrgs, userDepts>>
             /\ (/\ req'.user_id \in LiveUserIds(users)
                 /\ req'.unit_id \notin OrgIds(orgs)) =>
                   /\ resp' = Failure("AssignUserToOrganization", ErrOrganizationNotFound)
                   /\ UNCHANGED <<users, userOrgs, userDepts>>
       /\ (/\ req'.op = "AssignUserToDepartment"
           /\ AssignUserToDepartment(req'.user_id, req'.unit_id, req'.role,
                                     req'.is_primary)
           /\ req'.user_id # 0 /\ req'.unit_id # 0)
          => /\ req'.user_id \notin LiveUserIds(users) =>
                   /\ resp' = Failure("AssignUserToDepartment", ErrUserNotFound)
                   /\ UNCHANGED <<users, userOrgs, userDepts>>
             /\ (/\ req'.user_id \in LiveUserIds(users)
                 /\ req'.unit_id \notin 1..Len(depts)) =>
                   /\ resp' = Failure("AssignUserToDepartment", ErrDepartmentNotFound)
                   /\ UNCHANGED <<users, userOrgs, userDepts>>]_vars

\* a primary assignment of the existing account 1, which has a primary
\* membership in organization 1, to the missing organization 2 was just
\* refused
C23_Witness ==
    /\ req.op = "AssignUserToOrganization" /\ req.user_id = 1 /\ req.unit_id = 2
    /\ req.is_primary
    /\ resp = Failure("AssignUserToOrganization", ErrOrganizationNotFound)
    /\ Len(users) >= 1 /\ Len(orgs) = 1
    /\ users[1].primary_organization_id = 1
    /\ \E m \in Live(userOrgs) : m.user_id = 1 /\ m.unit_id = 1 /\ m.is_primary

(***************************************************************************)
(* Membership projection: the bootstrapped administrator, a department,    *)
(* assignment and removal, then login, refresh and /me.                    *)
(***************************************************************************)
NextProjection ==
    \/ BootstrapAdmin(DefaultBootstrap)
    \/ depts = <<>> /\ CreateDepartment(1, NoId, "Engineering")
    \/ \E r \in Roles, p \in BOOLEAN : AssignUserToOrganization(1, 1, r, p)
    \/ \E r \in {"", "MANAGER"}, p \in BOOLEAN : AssignUserToDepartment(1, 1, r, p)
    \/ RemoveUserOrganization(1, 1)
    \/ RemoveUserDepartment(1, 1)
    \/ \E d \in {NoId, 1} : Login("root-admin", "ChangeMe123!", 1, d)
    \/ KeepTokens
    \/ RefreshToken(held.refresh_token)
    \/ GetUserInfoByID(1)

SpecProjection == Init /\ [][NextProjection]_vars

\* the last call was an assignment that returned no error
AssignmentSucceeded ==
    /\ req.op \in {"AssignUserToOrganization", "AssignUserToDepartment"}
    /\ resp.err = NoErr

\* this step is a Login, RefreshToken or GetUserInfoByID for the user of the
\* assignment recorded in req, and it returned no error
ProjectionStep ==
    /\ resp'.err = NoErr
    /\ \/ /\ req'.op = "Login"
          /\ Login(req'.identifier, req'.password, req'.organization_id,
                   req'.department_id)
          /\ GetByEmailOrUsername(users, req'.identifier) = req.user_id
       \/ /\ req'.op = "RefreshToken" /\ RefreshToken(req'.token)
          /\ resp'.value = req.user_id
       \/ /\ req'.op = "GetUserInfoByID" /\ GetUserInfoByID(req'.user_id)
          /\ req'.user_id = req.user_id

\* C24: after a successful AssignUserToOrganization or AssignUserToDepartment,
\* the very next Login, RefreshToken and GetUserInfoByID for that user include
\* the assigned membership, with the assigned role and primary flag, in their
\* user projection and (Login, RefreshToken) access-token claims.
C24_AssignmentVisibleAtOnce ==
    [][(AssignmentSucceeded /\ ProjectionStep) =>
         LET org == req.op = "AssignUserToOrganization"
             shown == IF org THEN resp'.user.organizations
                      ELSE resp'.user.departments
             claims == Claim(resp'.access_token.payload,
                             IF org THEN "organizations" ELSE "departments")
             claimed == IF claims = JSONAbsent THEN {}
                        ELSE {claims[k] : k \in DOMAIN claims}
         IN
         /\ resp'.has_value
         /\ \E m \in shown :
               /\ (IF org THEN m.organization_id ELSE m.department_id) = req.unit_id
               /\ m.role = req.role /\ m.is_primary = req.is_primary
         /\ req'.op \in {"Login", "RefreshToken"} =>
               \E c \in claimed :
                  /\ c.id = req.unit_id /\ c.is_primary = req.is_primary
                  /\ c.role = IF req.role # "" THEN JSONString(req.role)
                              ELSE JSONAbsent]_vars

\* an assignment of the administrator to organization 1 returned no error,
\* and the /me projection read right after it lists no organization
C24_Witness ==
    /\ req.op = "GetUserInfoByID" /\ req.user_id = 1
    /\ req.after.op = "AssignUserToOrganization"
    /\ req.after.user_id = 1 /\ req.after.unit_id = 1
    /\ resp.err = NoErr /\ resp.has_value
    /\ resp.user.organizations = {}

(***************************************************************************)
(* Stored lockout state: the administrator's logins next to every other    *)
(* operation that touches or reads the account.                            *)
(***************************************************************************)
\* a second administrator account bootstrapped into the same organization
SecondAdminBootstrap ==
    [DefaultBootstrap EXCEPT !.email = "ops@root.local", !.username = "ops-admin"]

NextLockout ==
    \/ \E input \in {DefaultBootstrap, SecondAdminBootstrap} : BootstrapAdmin(input)
    \/ \E r \in {"", "MANAGER"} : AssignUserToOrganization(1, 1, r, FALSE)
    \/ \E p \in Passwords : Login("root-admin", p, 1, 0)
    \/ UnlockAccount(1)
    \/ Tick
    \/ \E token \in AccountTokens : ValidateToken(token)
    \/ \E token \in AccountTokens : RefreshToken(token)

SpecLockout == Init /\ [][NextLockout]_vars

\* C25: the stored lockout state is cleared only by a successful login or an
\* explicit UnlockAccount: no other operation ever lowers login_attempts or
\* clears locked_until, and the mere passing of locked_until changes no
\* stored field.
C25_LockoutClearedOnlyByLoginOrUnlock ==
    [][/\ \A u \in UserIds(users) :
             (\/ users'[u].login_attempts < users[u].login_attempts
              \/ users[u].locked_until # Null /\ users'[u].locked_until = Null)
                => \/ /\ req'.op = "Login" /\ resp'.err = NoErr /\ resp'.value = u
                      /\ Login(req'.identifier, req'.password, req'.organization_id,
                               req'.department_id)
                   \/ /\ req'.op = "UnlockAccount" /\ req'.user_id = u
                      /\ UnlockAccount(u)
       /\ now' # now => UNCHANGED <<users, orgs, depts, userOrgs, userDepts>>]_vars

\* the administrator's lock has run out, the counter still stands at the
\* threshold, and a refresh for that account was just answered
C25_Witness ==
    /\ Len(users) >= 1
    /\ users[1].locked_until # Null /\ users[1].locked_until < now
    /\ users[1].login_attempts >= MaxLoginAttempts
    /\ req.op = "RefreshToken" /\ resp.err = NoErr /\ resp.value = 1

(***************************************************************************)
(* The password in BootstrapAdmin's update branch (SpecBootstrap)          *)
(***************************************************************************)
\* C26: in BootstrapAdmin's update branch the stored password hash is
\* replaced if and only if ForcePasswordReset is set or the supplied password
\* does not verify against the stored hash; otherwise the stored hash is left
\* unchanged.  (The run is one whose Update succeeds: an update refused by
\* a unique index writes nothing.)
C26_RehashIffForcedOrChanged ==
    [][(/\ req'.op = "BootstrapAdmin" /\ BootstrapAdmin(req'.input)
        /\ PasswordLen(req'.input.password) >= MinPasswordLength
        /\ \E u \in LiveUserIds(users) : users[u].email = TrimSpace(req'.input.email))
          => LET u == CHOOSE i \in LiveUserIds(users) :
                          users[i].email = TrimSpace(req'.input.email)
                 due == \/ req'.input.force_password_reset
                        \/ users[u].password.pw # req'.input.password
             IN
             /\ ~due => users'[u].password = users[u].password
             /\ (due /\ resp'.err = NoErr) =>
                   /\ users'[u].password # users[u].password
                   /\ users'[u].password.pw = req'.input.password]_vars

\* a run with a rotated password has just replaced the hash of the existing
\* administrator account
C26_Witness ==
    /\ req.op = "BootstrapAdmin" /\ req.input = RotatedBootstrap
    /\ resp.op = "BootstrapAdmin" /\ resp.err = NoErr
    /\ Len(users) >= 1 /\ users[1].email = "admin@root.local"
    /\ users[1].password.pw = "Rotated456789" /\ users[1].password.salt > 1

(***************************************************************************)
(* Organizations and their domains: creation through the service and       *)
(* through EnsureOrganization, with and without a domain.                  *)
(***************************************************************************)
OrganizationNames == {"Acme", "Globex"}
OrganizationDomains == {"", "acme.io", "ACME.io"}

NextOrganization ==
    \/ \E n \in OrganizationNames, dom \in OrganizationDomains, parent \in {NoId, 1} :
           CreateOrganization(n, "Acme Inc", dom, parent)
    \/ \E n \in OrganizationNames, dom \in OrganizationDomains :
           EnsureOrganizationOp(n, "Acme Inc", dom)

SpecOrganization == Init /\ [][NextOrganization]_vars

\* C27: domain uniqueness is enforced only for non-empty domains: creating an
\* organization with an empty domain (via EnsureOrganization or
\* CreateOrganization) succeeds even when another organization with an empty
\* domain already exists, while a second organization with an already-used
\* non-empty domain is never created.
C27_EmptyDomainsMayRepeat ==
    [][/\ \A i, j \in OrgIds(orgs') :
             (i # j /\ orgs'[i].domain # "") => orgs'[i].domain # orgs'[j].domain
       /\ (/\ req'.op = "CreateOrganization"
           /\ CreateOrganization(req'.name, req'.description, req'.domain,
                                 req'.parent_id)
           /\ req'.domain = ""
           /\ req'.parent_id \in {NoId} \cup OrgIds(orgs))
          => /\ resp'.err = NoErr
             /\ Len(orgs') = Len(orgs) + 1 /\ orgs'[Len(orgs')].domain = ""
       /\ (/\ req'.op = "EnsureOrganization"
           /\ EnsureOrganizationOp(req'.name, req'.description, req'.domain)
           /\ req'.domain = ""
           /\ \A i \in OrgIds(orgs) : orgs[i].name # req'.name)
          => /\ resp'.err = NoErr
             /\ Len(orgs') = Len(orgs) + 1 /\ orgs'[Len(orgs')].domain = ""]_vars

\* with one organization without a domain stored, the creation of a second
\* one without a domain was refused by the store
C27_Witness ==
    /\ req.op = "CreateOrganization" /\ req.name = "Globex" /\ req.domain = ""
    /\ resp.err = ErrStore
    /\ Len(orgs) = 1 /\ orgs[1].name = "Acme" /\ orgs[1].domain = ""

(***************************************************************************)
(* The status of the endpoints' answers (SpecHandler)                      *)
(***************************************************************************)
\* C28: the boundary maps authentication outcomes to HTTP status as
\* specified: InvalidCredentials and InvalidToken to 401 (Unauthorized),
\* AccountLocked and AccountInactive to 403 (Forbidden), request-validation
\* failures to a validation error, storage failures to 500 (Internal); in
\* particular the authorization failures of Login (not a member of the
\* organization, inadmissible role) are never reported as internal errors.
C28_StatusMapping ==
    [][/\ LoginHandlerStep =>
             /\ ~req'.reached_service => resp'.status = HTTPValidationError
             /\ req'.reached_service =>
                   /\ resp'.err = NoErr => resp'.status = HTTPOK
                   /\ resp'.err = ErrInvalidCredentials => resp'.status = HTTPUnauthorized
                   /\ resp'.err \in {ErrAccountLocked, ErrAccountInactive} =>
                         resp'.status = HTTPForbidden
                   /\ resp'.err \in {ErrNotAMember, ErrRoleNotAllowed} =>
                         resp'.status \in {HTTPUnauthorized, HTTPForbidden}
       /\ (req'.op = "RefreshTokenHandler" /\ RefreshTokenHandler(req'.token)) =>
             /\ ~req'.reached_service => resp'.status = HTTPValidationError
             /\ (req'.reached_service /\ resp'.err = ErrInvalidToken) =>
                   resp'.status = HTTPUnauthorized
             /\ (req'.reached_service /\ resp'.err = NoErr) =>
                   resp'.status = HTTPOK]_vars

\* the administrator, no longer a member of organization 1, sent a complete
\* login request with the right password and was answered with an internal
\* error
C28_Witness ==
    /\ req.op = "LoginHandler" /\ req.identifier = "root-admin"
    /\ req.password = "ChangeMe123!" /\ req.organization_id = 1 /\ req.role_id = 1
    /\ req.reached_service
    /\ resp.err = ErrNotAMember /\ resp.status = HTTPInternal

(***************************************************************************)
(* Concurrent requests.  The services open no transaction and take no      *)
(* lock, so two requests interleave between any two repository calls; each *)
(* repository call is one statement and is atomic.                         *)
(***************************************************************************)
NoCallInFlight == \A c \in CallIds : calls[c].pc \in {"idle", "done"}

NoCallYet == \A c \in CallIds : calls[c].pc = "idle"

\* AssignUserToOrganization up to its first write: the input checks and the
\* two lookups
AssignStart(c, userID, organizationID, role, isPrimary) ==
    LET op == "AssignUserToOrganization"
        err == IF userID = 0 \/ organizationID = 0 THEN ErrInput
               ELSE IF GetByID(users, userID) = NoId THEN ErrUserNotFound
               ELSE IF GetOrganizationByID(orgs, organizationID) = NoId
               THEN ErrOrganizationNotFound
               ELSE NoErr
        call == [op |-> op, user_id |-> userID, unit_id |-> organizationID,
                 role |-> role, is_primary |-> isPrimary]
    IN
    /\ calls[c].pc = "idle"
    /\ IF err # NoErr
       THEN /\ calls' = [calls EXCEPT ![c] = call @@ [pc |-> "done"]]
            /\ req' = call
            /\ resp' = Failure(op, err)
       ELSE /\ calls' = [calls EXCEPT ![c] =
                            call @@ [pc |-> IF isPrimary THEN "clear" ELSE "upsert"]]
            /\ UNCHANGED <<req, resp>>
    /\ UNCHANGED <<users, orgs, depts, userOrgs, userDepts, now, nextSalt, held, streak>>

\* s.orgRepo.ClearPrimaryOrganization(input.UserID)
AssignClearPrimary(c) ==
    /\ calls[c].pc = "clear"
    /\ userOrgs' = ClearPrimary(userOrgs, calls[c].user_id)
    /\ calls' = [calls EXCEPT ![c].pc = "upsert"]
    /\ UNCHANGED <<users, orgs, depts, userDepts, now, nextSalt, req, resp, held, streak>>

\* s.orgRepo.UpsertUserOrganization(...)
AssignUpsert(c) ==
    /\ calls[c].pc = "upsert"
    /\ userOrgs' = UpsertUserMembership(userOrgs, calls[c].user_id, calls[c].unit_id,
                                        calls[c].role, calls[c].is_primary)
    /\ calls' = [calls EXCEPT ![c].pc = IF calls[c].is_primary THEN "set" ELSE "read"]
    /\ UNCHANGED <<users, orgs, depts, userDepts, now, nextSalt, req, resp, held, streak>>

\* s.orgRepo.SetUserPrimaryOrganization(input.UserID, input.OrganizationID)
AssignSetPrimary(c) ==
    /\ calls[c].pc = "set"
    /\ users' = SetUserPrimaryOrganization(users, calls[c].user_id, calls[c].unit_id)
    /\ calls' = [calls EXCEPT ![c].pc = "read"]
    /\ UNCHANGED <<orgs, depts, userOrgs, userDepts, now, nextSalt, req, resp, held, streak>>

\* s.orgRepo.GetUserOrganization(...): the membership is read back and returned
AssignReturn(c) ==
    /\ calls[c].pc = "read"
    /\ calls' = [calls EXCEPT ![c].pc = "done"]
    /\ req' = [op |-> calls[c].op, user_id |-> calls[c].user_id,
               unit_id |-> calls[c].unit_id, role |-> calls[c].role,
               is_primary |-> calls[c].is_primary]
    /\ resp' = Assigned(calls[c].op, userOrgs, calls[c].user_id, calls[c].unit_id)
    /\ UNCHANGED <<users, orgs, depts, userOrgs, userDepts, now, nextSalt, held, streak>>

(***************************************************************************)
(* Concurrent assignment: the store is set up by bootstrap and the         *)
(* creation of a second organization, then assignments of the              *)
(* administrator run side by side.                                         *)
(***************************************************************************)
NextConcurrentAssign ==
    \/ NoCallYet /\ BootstrapAdmin(DefaultBootstrap)
    \/ NoCallYet /\ CreateOrganization("Acme", "Acme Inc", "acme.io", NoId)
    \/ \E c \in CallIds, u \in AllUserIds, o \in AllOrgIds, p \in BOOLEAN :
           AssignStart(c, u, o, "", p)
    \/ \E c \in CallIds : AssignClearPrimary(c)
    \/ \E c \in CallIds : AssignUpsert(c)
    \/ \E c \in CallIds : AssignSetPrimary(c)
    \/ \E c \in CallIds : AssignReturn(c)

SpecConcurrentAssign == Init /\ [][NextConcurrentAssign]_vars

\* two completed primary assignments of user u to different organizations
TwoPrimaryAssignmentsDone(u) ==
    \E c, d \in CallIds :
        /\ c # d /\ NoCallInFlight
        /\ calls[c].pc = "done" /\ calls[d].pc = "done"
        /\ calls[c].user_id = u /\ calls[d].user_id = u
        /\ calls[c].is_primary /\ calls[d].is_primary
        /\ calls[c].unit_id # calls[d].unit_id
        /\ calls[c].unit_id \in OrgIds(orgs) /\ calls[d].unit_id \in OrgIds(orgs)

\* C29: when two AssignUserToOrganization calls with is_primary = true for the
\* same user and two different organizations run concurrently, interleaved
\* at the granularity of individual repository calls, then once both have
\* completed the user has at most one primary organization membership and
\* the account's primary_organization_id names that membership.
C29_ConcurrentPrimaryAssignments ==
    \A u \in LiveUserIds(users) :
        TwoPrimaryAssignmentsDone(u) =>
            /\ Cardinality(PrimaryMemberships(userOrgs, u)) <= 1
            /\ PrimaryInSync(userOrgs, u, users[u].primary_organization_id)

\* both primary assignments of the administrator have completed and the
\* administrator has two primary organization memberships
C29_Witness ==
    /\ Len(users) >= 1 /\ TwoPrimaryAssignmentsDone(1)
    /\ Cardinality(PrimaryMemberships(userOrgs, 1)) = 2

(***************************************************************************)
(* Concurrent logins.  Login reads the account once; the counter is        *)
(* incremented in the database, and the decision to lock uses the          *)
(* LoginAttempts of the row as it was read.                                *)
(***************************************************************************)
\* Login up to its first write: the lookup, the lock, active and password
\* checks, the membership checks and the tokens.  A call that writes nothing
\* returns here.
LoginStart(c, identifier, password, organizationID, departmentID) ==
    LET r == LoginResult(identifier, password, organizationID, departmentID)
        user == GetByEmailOrUsername(users, identifier)
        call == [op |-> "Login", identifier |-> identifier, password |-> password,
                 organization_id |-> organizationID, department_id |-> departmentID,
                 user_id |-> user, stage |-> r.stage, resp |-> r.resp,
                 login_attempts |-> IF user = NoId THEN 0
                                    ELSE users[user].login_attempts]
    IN
    /\ calls[c].pc = "idle"
    /\ calls' = [calls EXCEPT ![c] =
                    call @@ [pc |-> CASE r.stage = "password" -> "increment"
                                      [] r.stage = "ok" -> "update"
                                      [] OTHER -> "done"]]
    /\ streak' = IF r.stage = "password" THEN StreakAfterLogin(r, user) ELSE streak
    /\ IF r.stage \in {"password", "ok"}
       THEN UNCHANGED <<req, resp>>
       ELSE /\ req' = [op |-> "Login", identifier |-> identifier, password |-> password,
                       organization_id |-> organizationID,
                       department_id |-> departmentID]
            /\ resp' = r.resp
    /\ UNCHANGED <<users, orgs, depts, userOrgs, userDepts, now, nextSalt, held>>

\* the request and response of a call that returns
LoginReturns(c) ==
    /\ req' = [op |-> "Login", identifier |-> calls[c].identifier,
               password |-> calls[c].password,
               organization_id |-> calls[c].organization_id,
               department_id |-> calls[c].department_id]
    /\ resp' = calls[c].resp

\* s.userRepo.IncrementLoginAttempts(user.ID); without a lock to set the
\* call returns ErrInvalidCredentials
LoginIncrement(c) ==
    /\ calls[c].pc = "increment"
    /\ users[calls[c].user_id].login_attempts < MaxStoredAttempts
    /\ users' = IncrementLoginAttempts(users, calls[c].user_id)
    /\ IF ShouldLock(calls[c].login_attempts)
       THEN /\ calls' = [calls EXCEPT ![c].pc = "lock"]
            /\ UNCHANGED <<req, resp>>
       ELSE /\ calls' = [calls EXCEPT ![c].pc = "done"]
            /\ LoginReturns(c)
    /\ UNCHANGED <<orgs, depts, userOrgs, userDepts, now, nextSalt, held, streak>>

\* s.userRepo.LockAccount(user.ID, lockUntil), then ErrInvalidCredentials
LoginLock(c) ==
    /\ calls[c].pc = "lock"
    /\ users' = LockAccount(users, calls[c].user_id, now + LockoutDuration)
    /\ calls' = [calls EXCEPT ![c].pc = "done"]
    /\ LoginReturns(c)
    /\ UNCHANGED <<orgs, depts, userOrgs, userDepts, now, nextSalt, held, streak>>

\* s.userRepo.UpdateLastLogin(user.ID), then the LoginResponse
LoginUpdateLastLogin(c) ==
    /\ calls[c].pc = "update"
    /\ users' = CompleteLogin(users, calls[c].user_id, now)
    /\ calls' = [calls EXCEPT ![c].pc = "done"]
    /\ streak' = [streak EXCEPT ![calls[c].user_id] =
                     IF users[calls[c].user_id].locked_until = Null THEN 0 ELSE -1]
    /\ LoginReturns(c)
    /\ UNCHANGED <<orgs, depts, userOrgs, userDepts, now, nextSalt, held>>

(***************************************************************************)
(* Concurrent login: bootstrap and logins one at a time first, then        *)
(* logins of the administrator side by side.                               *)
(***************************************************************************)
NextConcurrentLogin ==
    \/ NoCallYet /\ BootstrapAdmin(DefaultBootstrap)
    \/ NoCallYet /\ \E p \in Passwords : Login("root-admin", p, 1, 0)
    \/ \E c \in CallIds, i \in {"root-admin", "nobody"}, p \in Passwords :
           LoginStart(c, i, p, 1, 0)
    \/ \E c \in CallIds : LoginIncrement(c)
    \/ \E c \in CallIds : LoginLock(c)
    \/ \E c \in CallIds : LoginUpdateLastLogin(c)

SpecConcurrentLogin == Init /\ [][NextConcurrentLogin]_vars

\* every request goroutine has run a Login of account u that failed the
\* password check, and all of them have returned
WrongPasswordLoginsDone(u) ==
    \A c \in CallIds :
        /\ calls[c].pc = "done" /\ calls[c].op = "Login"
        /\ calls[c].user_id = u /\ calls[c].stage = "password"

\* C30: when several wrong-password Login calls for the same account run
\* concurrently (each reads the account, then increments the counter, then
\* decides whether to lock), then once all have completed the stored
\* login_attempts equals the number of failed password checks since the last
\* reset, and if that number is at least MaxLoginAttempts the account is
\* locked (locked_until set in the future).
C30_ConcurrentFailuresLock ==
    \A u \in LiveUserIds(users) :
        (WrongPasswordLoginsDone(u) /\ streak[u] >= 0) =>
            /\ users[u].login_attempts = streak[u]
            /\ streak[u] >= MaxLoginAttempts =>
                  (users[u].locked_until # Null /\ users[u].locked_until > now)

\* after one failed login on its own and two concurrent ones the counter
\* stands at the threshold and the administrator's account is not locked
C30_Witness ==
    /\ Len(users) >= 1 /\ WrongPasswordLoginsDone(1)
    /\ streak[1] >= MaxLoginAttempts
    /\ users[1].login_attempts = streak[1]
    /\ users[1].locked_until = Null

(***************************************************************************)
(* Assignment after removal (SpecProjection)                               *)
(***************************************************************************)
\* the membership table an assignment request writes to
AssignedTable ==
    IF req.op = "AssignUserToOrganization" THEN userOrgs ELSE userDepts

\* C31: an AssignUserToOrganization / AssignUserToDepartment that returns
\* without error returns the membership row and leaves the user a live member
\* of the unit, whatever happened before, a removal of the same membership
\* included.
C31_AssignLeavesLiveMember ==
    (AssignmentSucceeded /\ resp.op = req.op) =>
        /\ resp.has_value
        /\ \E m \in ListUserMemberships(AssignedTable, req.user_id) :
              m.unit_id = req.unit_id

\* an assignment of the administrator to organization 1 returned neither an
\* error nor a row, and the membership it wrote is still the removed one
C31_Witness ==
    /\ req.op = "AssignUserToOrganization" /\ req.user_id = 1 /\ req.unit_id = 1
    /\ resp.op = req.op /\ resp.err = NoErr /\ ~resp.has_value
    /\ \E m \in userOrgs : m.user_id = 1 /\ m.unit_id = 1 /\ m.deleted
                           /\ m.role = req.role
    /\ ListUserMemberships(userOrgs, 1) = {}

(***************************************************************************)
(* The order of Login's checks (SpecAccount)                               *)
(***************************************************************************)
\* C32: Login checks the account lookup, the lock, the active flag, the
\* password and the membership in that order: a locked and inactive account
\* yields AccountLocked; an inactive account that is not locked yields
\* AccountInactive for every password, and a wrong password against it
\* neither increments login_attempts nor locks it.
C32_LoginCheckOrder ==
    [][(LoginStep /\ LoginAccount # NoId /\ ~users[LoginAccount].is_active) =>
          LET u == LoginAccount IN
          /\ ~resp'.has_value
          /\ users' = users
          /\ resp'.err = IF LockedNow(u) THEN ErrAccountLocked
                         ELSE ErrAccountInactive]_vars

\* a wrong password was just refused with AccountInactive on the deactivated
\* administrator, whose counter of earlier failures stands as it was
C32_Witness ==
    /\ req.op = "Login" /\ req.password = "Wrong-password"
    /\ resp.op = "Login" /\ resp.err = ErrAccountInactive
    /\ Len(users) >= 1 /\ GetByEmailOrUsername(users, req.identifier) = 1
    /\ ~users[1].is_active /\ ~LockedNow(1)
    /\ users[1].login_attempts = 1 /\ users[1].locked_until = Null
    /\ streak[1] = 1

(***************************************************************************)
(* A wrong password after the lock has run out (SpecLockout)               *)
(***************************************************************************)
\* account u carries a lock that has run out, and neither a successful login
\* nor UnlockAccount came after the lock was set: UnlockAccount would have
\* cleared locked_until, and a successful login, possible only once the lock
\* has run out, would have set last_login to a time not before locked_until
ExpiredLockStands(u) ==
    /\ users[u].locked_until # Null /\ users[u].locked_until <= now
    /\ users[u].last_login = Null \/ users[u].last_login < users[u].locked_until

\* C33: after a lock has expired with no successful login or UnlockAccount
\* in between, the stored login_attempts is still at least MaxLoginAttempts,
\* and the first wrong-password Login after it locks the account again, for
\* a full LockoutDuration from that login.
C33_ExpiredLockRelocksAtOnce ==
    /\ [](\A u \in UserIds(users) :
            ExpiredLockStands(u) => users[u].login_attempts >= MaxLoginAttempts)
    /\ [][(/\ LoginStep /\ LoginAccount # NoId
           /\ ExpiredLockStands(LoginAccount)
           /\ users[LoginAccount].is_active /\ ~CorrectPassword) =>
             /\ resp'.err = ErrInvalidCredentials
             /\ users'[LoginAccount].locked_until = now + LockoutDuration
             /\ users'[LoginAccount].login_attempts
                    = users[LoginAccount].login_attempts + 1]_vars

\* the administrator's first lock ran out at the time of this wrong-password
\* login, which was the fourth failure in a row and set a new lock
C33_Witness ==
    /\ req.op = "Login" /\ req.password = "Wrong-password"
    /\ resp.op = "Login" /\ resp.err = ErrInvalidCredentials
    /\ Len(users) >= 1 /\ GetByEmailOrUsername(users, req.identifier) = 1
    /\ streak[1] = MaxLoginAttempts + 1
    /\ users[1].login_attempts = MaxLoginAttempts + 1
    /\ users[1].locked_until = now + LockoutDuration
    /\ now >= LockoutDuration

(***************************************************************************)
(* A Login refused after the password check: credential verification with  *)
(* membership changes and departments, and repository reads that fail.     *)
(***************************************************************************)
NextRefusedLogin ==
    \/ BootstrapAdmin(DefaultBootstrap)
    \/ depts = <<>> /\ CreateDepartment(1, NoId, "Engineering")
    \/ \E r \in Roles : AssignUserToOrganization(1, 1, r, FALSE)
    \/ AssignUserToDepartment(1, 1, "", FALSE)
    \/ RemoveUserOrganization(1, 1)
    \/ \E p \in Passwords, d \in {NoId, 1} : Login("root-admin", p, 1, d)
    \/ \E p \in Passwords, d \in {NoId, 1}, failing \in LoginReads :
           LoginInterrupted("root-admin", p, 1, d, failing)
    \/ Tick

SpecRefusedLogin == Init /\ [][NextRefusedLogin]_vars

\* this step is the Login call recorded in req', run to its end or stopped
\* by a failing repository read
RefusedLoginStep ==
    /\ req'.op = "Login"
    /\ resp'.err # NoErr
    /\ \/ Login(req'.identifier, req'.password, req'.organization_id,
                req'.department_id)
       \/ \E failing \in LoginReads :
             LoginInterrupted(req'.identifier, req'.password, req'.organization_id,
                              req'.department_id, failing)

\* C34: a Login that passes the password check and then fails (not a member
\* of the requested organization, a role that is not admitted, a storage
\* error while loading the memberships, the organization or the department)
\* returns no tokens and leaves the account's login_attempts, locked_until
\* and last_login exactly as they were.
C34_RefusedLoginWritesNothing ==
    [][(/\ RefusedLoginStep /\ LoginAccount # NoId
        /\ ~LockedNow(LoginAccount)
        /\ users[LoginAccount].is_active
        /\ CorrectPassword) =>
          LET u == LoginAccount IN
          /\ resp'.access_token = NoToken /\ resp'.refresh_token = NoToken
          /\ ~resp'.has_value
          /\ users'[u].login_attempts = users[u].login_attempts
          /\ users'[u].locked_until = users[u].locked_until
          /\ users'[u].last_login = users[u].last_login]_vars

\* the administrator gave the right password and the load of the
\* organization failed; the account still shows two earlier failures, the
\* lock that has run out, and no login
C34_Witness ==
    /\ req.op = "Login" /\ req.password = "ChangeMe123!"
    /\ "failing" \in DOMAIN req /\ req.failing = "GetOrganizationByID"
    /\ resp.op = "Login" /\ resp.err = ErrStore
    /\ resp.access_token = NoToken /\ resp.refresh_token = NoToken
    /\ Len(users) >= 1
    /\ users[1].login_attempts = MaxLoginAttempts
    /\ users[1].locked_until # Null /\ users[1].locked_until <= now
    /\ users[1].last_login = Null

(***************************************************************************)
(* BootstrapAdmin on an input it rejects (SpecBootstrap)                   *)
(***************************************************************************)
\* this step is the BootstrapAdmin call recorded in req', and it rejected its
\* input: the e-mail is blank or the password is too short
BootstrapRejectsInput ==
    /\ req'.op = "BootstrapAdmin" /\ BootstrapAdmin(req'.input)
    /\ resp'.err \in {"bootstrap admin email is required",
                      "bootstrap admin password too short"}

\* C35: a BootstrapAdmin call that rejects its input (blank admin e-mail, or
\* a password shorter than the minimum) writes nothing to the store: no
\* organization is created, reactivated or modified, and no account or
\* membership is touched.
C35_RejectedBootstrapWritesNothing ==
    [][BootstrapRejectsInput =>
          /\ orgs' = orgs
          /\ users' = users
          /\ userOrgs' = userOrgs]_vars

\* BootstrapAdmin refused a short password on an empty store and left the
\* organization of its input behind, with no account
C35_Witness ==
    /\ req.op = "BootstrapAdmin" /\ req.input = ShortPasswordBootstrap
    /\ resp.op = "BootstrapAdmin" /\ resp.err = "bootstrap admin password too short"
    /\ Len(orgs) = 1 /\ orgs[1].name = ShortPasswordBootstrap.organization_name
    /\ users = <<>> /\ userOrgs = {}

(***************************************************************************)
(* Assignment with is_primary = false (SpecProjection)                     *)
(***************************************************************************)
\* this step is the assignment recorded in req', made with is_primary =
\* false, and it returned no error
NonPrimaryAssignStep ==
    /\ \/ /\ req'.op = "AssignUserToOrganization"
          /\ AssignUserToOrganization(req'.user_id, req'.unit_id, req'.role, FALSE)
       \/ /\ req'.op = "AssignUserToDepartment"
          /\ AssignUserToDepartment(req'.user_id, req'.unit_id, req'.role, FALSE)
    /\ ~req'.is_primary /\ resp'.err = NoErr

\* C36: an AssignUserToOrganization / AssignUserToDepartment with is_primary
\* = false changes only the role of the targeted membership: the primary
\* flag of every membership of that user, the targeted one included if it
\* exists, and the account's primary_organization_id and
\* primary_department_id are as before.
C36_NonPrimaryAssignKeepsPrimary ==
    [][NonPrimaryAssignStep =>
          LET org == req'.op = "AssignUserToOrganization"
              before == IF org THEN userOrgs ELSE userDepts
              after == IF org THEN userOrgs' ELSE userDepts'
              u == req'.user_id
          IN
          /\ \A m \in ListUserMemberships(before, u) :
                \E n \in after :
                   /\ n.user_id = u /\ n.unit_id = m.unit_id
                   /\ n.is_primary = m.is_primary
                   /\ m.unit_id # req'.unit_id => n = m
          /\ users'[u].primary_organization_id = users[u].primary_organization_id
          /\ users'[u].primary_department_id = users[u].primary_department_id]_vars

\* the administrator's only organization membership, primary since the
\* bootstrap, was just re-assigned as MANAGER with is_primary = false: the
\* row is no longer primary while the account still names organization 1
C36_Witness ==
    /\ req.op = "AssignUserToOrganization" /\ req.user_id = 1 /\ req.unit_id = 1
    /\ req.role = "MANAGER" /\ ~req.is_primary
    /\ resp.op = req.op /\ resp.err = NoErr /\ resp.has_value
    /\ \E m \in ListUserMemberships(userOrgs, 1) :
          m.unit_id = 1 /\ m.role = "MANAGER" /\ ~m.is_primary
    /\ users[1].primary_organization_id = 1

(***************************************************************************)
(* EnsureOrganization on a store that already holds organizations, some of *)
(* them switched to inactive.                                              *)
(***************************************************************************)
EnsureDescriptions == {"", " ", "Acme Inc", " Second description "}
EnsureDomains == {"", "acme.io", "globex.io"}

NextEnsure ==
    \/ \E n \in OrganizationNames, dom \in {"", "acme.io"} :
           CreateOrganization(n, "Acme Inc", dom, NoId)
    \/ \E n \in OrganizationNames, d \in EnsureDescriptions, dom \in EnsureDomains :
           EnsureOrganizationOp(n, d, dom)
    \/ \E o \in AllOrgIds : DeactivateOrganization(o)

SpecEnsure == Init /\ [][NextEnsure]_vars

\* the organization an EnsureOrganization(name, ., domain) call matches in
\* the store as it is: the one with that domain if the domain is not empty
\* and in use, else the first one with that name; NoId if there is none
EnsureMatch(name, domain) ==
    LET byDomain == {i \in OrgIds(orgs) : orgs[i].domain = TrimSpace(domain)}
        byName == {i \in OrgIds(orgs) : orgs[i].name = TrimSpace(name)}
    IN  IF TrimSpace(domain) # "" /\ byDomain # {} THEN Min(byDomain)
        ELSE IF byName # {} THEN Min(byName)
        ELSE NoId

\* C37: EnsureOrganization looks up by non-empty domain first and then by
\* name; when it matches an organization, that organization is returned and
\* active after the call, its description is overwritten only if the given
\* description is not empty and differs, its domain only if the given domain
\* is not empty and differs, and no organization row is created.
C37_EnsureUpdatesMatch ==
    [][(/\ req'.op = "EnsureOrganization"
        /\ EnsureOrganizationOp(req'.name, req'.description, req'.domain)
        /\ TrimSpace(req'.name) # ""
        /\ EnsureMatch(req'.name, req'.domain) # NoId) =>
          LET id == EnsureMatch(req'.name, req'.domain) IN
          /\ resp'.err = NoErr /\ resp'.value = id
          /\ Len(orgs') = Len(orgs)
          /\ \A j \in OrgIds(orgs) : j # id => orgs'[j] = orgs[j]
          /\ orgs'[id].is_active
          /\ orgs'[id].name = orgs[id].name
          /\ orgs'[id].description # orgs[id].description =>
                /\ req'.description # ""
                /\ req'.description # orgs[id].description
                /\ orgs'[id].description = TrimSpace(req'.description)
          /\ orgs'[id].domain # orgs[id].domain =>
                /\ req'.domain # ""
                /\ req'.domain # orgs[id].domain
                /\ orgs'[id].domain = TrimSpace(req'.domain)]_vars

\* EnsureOrganization("Globex", " Second description ", "acme.io") was just
\* answered with organization 1, matched by its domain although organization
\* 2 carries the name: organization 1 is active again with the new
\* description, organization 2 is as it was, inactive
C37_Witness ==
    /\ req.op = "EnsureOrganization" /\ req.name = "Globex"
    /\ req.domain = "acme.io" /\ req.description = " Second description "
    /\ req.before = "Acme Inc"
    /\ resp.op = "EnsureOrganization" /\ resp.err = NoErr /\ resp.value = 1
    /\ Len(orgs) = 2
    /\ orgs[1].name = "Acme" /\ orgs[1].domain = "acme.io" /\ orgs[1].is_active
    /\ orgs[1].description = "Second description"
    /\ orgs[2].name = "Globex" /\ ~orgs[2].is_active

(***************************************************************************)
(* The claims of the issued tokens (SpecLogin)                             *)
(***************************************************************************)
\* the identity claims of account u as the claim set carries them
CarriesIdentity(payload, u) ==
    /\ Claim(payload, "user_id") = MarshalUint64(u)
    /\ Claim(payload, "email") = JSONString(users[u].email)
    /\ Claim(payload, "username") = JSONString(users[u].username)
    /\ users[u].primary_organization_id # NoId =>
          Claim(payload, "org_id") = MarshalUint64(users[u].primary_organization_id)
    /\ users[u].is_super_admin => Claim(payload, "is_super_admin") = JSONTrue

\* C38: the access token and the refresh token of a login both carry the
\* canonical identity claims: type and user_id, email and username, org_id
\* when the account has a primary organization, is_super_admin when the
\* account is a super admin; only the organizations, roles and departments
\* claims are left to the access token.
C38_BothTokensCarryIdentity ==
    [][(LoginStep /\ resp'.err = NoErr) =>
          /\ Claim(resp'.access_token.payload, "type") = JSONString("access")
          /\ Claim(resp'.refresh_token.payload, "type") = JSONString("refresh")
          /\ CarriesIdentity(resp'.access_token.payload, resp'.value)
          /\ CarriesIdentity(resp'.refresh_token.payload, resp'.value)
          /\ DOMAIN resp'.refresh_token.payload
                \cap {"organizations", "roles", "departments"} = {}]_vars

\* the administrator, a super admin with primary organization 1, has just
\* logged in: the access token names the e-mail, the username, the
\* organization and the flag, the refresh token none of them
C38_Witness ==
    /\ req.op = "Login" /\ resp.op = "Login" /\ resp.err = NoErr /\ resp.value = 1
    /\ users[1].is_super_admin /\ users[1].primary_organization_id = 1
    /\ CarriesIdentity(resp.access_token.payload, 1)
    /\ Claim(resp.refresh_token.payload, "user_id") = MarshalUint64(1)
    /\ DOMAIN resp.refresh_token.payload
          \cap {"email", "username", "org_id", "is_super_admin"} = {}

(***************************************************************************)
(* The membership claims of an access token: the administrator with roles  *)
(* in two organizations and a department, then login.                      *)
(***************************************************************************)
\* role values a client may send: none, blank, SYSTEM_ADMIN
AssignableRoles == {"", " ", OrganizationRoleSystemAdmin}

NextClaims ==
    \/ BootstrapAdmin(DefaultBootstrap)
    \/ CreateOrganization("Acme", "Acme Inc", "acme.io", NoId)
    \/ depts = <<>> /\ CreateDepartment(1, NoId, "Engineering")
    \/ \E o \in AllOrgIds, r \in AssignableRoles, p \in BOOLEAN :
           AssignUserToOrganization(1, o, r, p)
    \/ AssignUserToDepartment(1, 1, "", TRUE)
    \/ \E o \in AllOrgIds : RemoveUserOrganization(1, o)
    \/ Login("root-admin", "ChangeMe123!", 1, NoId)

SpecClaims == Init /\ [][NextClaims]_vars

\* the claim `name` of the claim set is present exactly when the user has a
\* membership in `rows`, has one entry per membership, and lists a primary
\* membership first when there is one
MembershipClaimShape(payload, name, rows) ==
    /\ name \in DOMAIN payload <=> rows # {}
    /\ name \in DOMAIN payload =>
          /\ Len(payload[name]) = Cardinality(rows)
          /\ (\E m \in rows : m.is_primary) => payload[name][1].is_primary

\* C39: in an access token the organizations (departments) claim is present
\* exactly when the user has an organization (department) membership and
\* lists the primary membership first; the roles claim, when present, is a
\* non-empty list holding each distinct non-empty organization role exactly
\* once; no membership claim is an empty array.
C39_MembershipClaims ==
    [][(LoginStep /\ resp'.err = NoErr) =>
          LET payload == resp'.access_token.payload
              orgRows == ListUserMemberships(userOrgs, resp'.value)
              deptRows == ListUserMemberships(userDepts, resp'.value)
          IN
          /\ MembershipClaimShape(payload, "organizations", orgRows)
          /\ MembershipClaimShape(payload, "departments", deptRows)
          /\ \A name \in {"organizations", "departments", "roles"} \cap DOMAIN payload :
                payload[name] # <<>>
          /\ "roles" \in DOMAIN payload =>
                /\ {payload.roles[k] : k \in DOMAIN payload.roles}
                      = {m.role : m \in orgRows} \ {""}
                /\ \A j, k \in DOMAIN payload.roles :
                      payload.roles[j] = payload.roles[k] => j = k]_vars

\* the administrator, member of organization 1 without a role and of
\* organization 2 with the role " ", has just logged in: the access token
\* lists both organizations and carries a roles claim that is an empty list
C39_Witness ==
    /\ req.op = "Login" /\ resp.op = "Login" /\ resp.err = NoErr /\ resp.value = 1
    /\ ListUserMemberships(userOrgs, 1)
          = {Membership(1, 1, "", TRUE), Membership(1, 2, " ", FALSE)}
    /\ Len(resp.access_token.payload.organizations) = 2
    /\ "roles" \in DOMAIN resp.access_token.payload
    /\ resp.access_token.payload.roles = <<>>

(***************************************************************************)
(* The unit hierarchy: organizations and departments created with and      *)
(* without a parent, the parent existing or not.                           *)
(***************************************************************************)
NextHierarchy ==
    \/ \E n \in OrganizationNames, dom \in {"acme.io", "globex.io"},
          parent \in {NoId} \cup AllOrgIds :
           CreateOrganization(n, "Acme Inc", dom, parent)
    \/ \E o \in AllOrgIds, parent \in {NoId} \cup AllDeptIds,
          n \in {"Engineering", "Sales"} :
           CreateDepartment(o, parent, n)

SpecHierarchy == Init /\ [][NextHierarchy]_vars

\* the units reached from unit i by following parent_id at most k times
RECURSIVE AncestorsWithin(_, _, _)
AncestorsWithin(rows, i, k) ==
    IF k = 0 \/ rows[i].parent_id = NoId \/ rows[i].parent_id \notin DOMAIN rows
    THEN {}
    ELSE {rows[i].parent_id} \cup AncestorsWithin(rows, rows[i].parent_id, k - 1)

\* every parent reference names a row of the table, and no unit is its own
\* ancestor
Forest(rows) ==
    \A i \in DOMAIN rows :
        /\ rows[i].parent_id # NoId => rows[i].parent_id \in DOMAIN rows
        /\ i \notin AncestorsWithin(rows, i, Len(rows))

\* C40: after any sequence of CreateOrganization and CreateDepartment calls
\* the organization parent relation and the department parent relation are
\* forests, every parent reference points to an existing unit, and the
\* parent of a department belongs to the department's organization.
C40_HierarchiesAreForests ==
    /\ Forest(orgs)
    /\ Forest(depts)
    /\ \A d \in DOMAIN depts :
          /\ depts[d].organization_id \in OrgIds(orgs)
          /\ depts[d].parent_id # NoId =>
                depts[depts[d].parent_id].organization_id = depts[d].organization_id

\* two organizations, the second under the first, each with a department;
\* the creation of a third department in organization 2 under the
\* department of organization 1 was just refused
C40_Witness ==
    /\ Len(orgs) = 2 /\ orgs[2].parent_id = 1
    /\ Len(depts) = 2
    /\ depts[1].organization_id = 1 /\ depts[2].organization_id = 2
    /\ req.op = "CreateDepartment" /\ req.organization_id = 2 /\ req.parent_id = 1
    /\ resp.op = "CreateDepartment"
    /\ resp.err = "parent department belongs to another organization"

====
